---- MODULE Spec2Model ----
(***************************************************************************)
(* A model of mkdb: the tuple codec (storage/tuple.rs), block based I/O    *)
(* (paging/io.rs), the semantic analyzer (sql/analyzer.rs) and the plan    *)
(* generator (query/planner.rs).                                           *)
(*                                                                         *)
(* Value::Number holds an i128.  Its values reach 2^64 and beyond, so an   *)
(* i128 is represented by its 16 big-endian two's-complement bytes, each a *)
(* number in 0..255.  A String is the sequence of its Unicode scalar       *)
(* values; its bytes are the UTF-8 encoding of that sequence.              *)
(***************************************************************************)
EXTENDS Integers, Sequences, FiniteSets, TLC

VARIABLES
    \* storage/tuple.rs: one serialize / deserialize / size_of run
    t_schema, t_tuple, t_buf, t_out, t_size, t_pc,
    \* paging/io.rs: BlockIo over an in-memory sink
    page_size, block_size, io_vec, io_pos, io_op, io_page, io_buf, io_ret,
    \* what the caller last wrote to each page, and the length of its buffers
    io_last, io_len,
    \* sql/analyzer.rs: the analyzed statement and the result of analyze;
    \* a_meta holds the CREATE statements applied to the catalog so far
    a_tables, a_stmt, a_result, a_pc, a_meta,
    \* query/planner.rs: the planned statement, its scan plan and the plan
    p_stmt, p_scan, p_plan,
    \* sql/analyzer.rs: one call of analyze_expression
    x_schema, x_col, x_expr, x_type, x_pc,
    \* sql/tokenizer.rs: the Tokenizer and the items its iterator has yielded
    k_stream, k_reached_eof, k_items, k_result,
    \* the profile the program was built with
    build

tupleVars == <<t_schema, t_tuple, t_buf, t_out, t_size, t_pc>>
ioVars == <<page_size, block_size, io_vec, io_pos, io_op, io_page, io_buf, io_ret,
           io_last, io_len>>
analyzerVars == <<a_tables, a_stmt, a_result, a_pc, a_meta>>
plannerVars == <<p_stmt, p_scan, p_plan>>
typingVars == <<x_schema, x_col, x_expr, x_type, x_pc>>
tokenizerVars == <<k_stream, k_reached_eof, k_items, k_result>>
vars == <<tupleVars, ioVars, analyzerVars, plannerVars, typingVars, tokenizerVars, build>>

-----------------------------------------------------------------------------
(* The build.  A debug build (cargo build, cargo test) has overflow checks *)
(* and debug assertions, a release build has neither.                      *)

Builds == {"debug", "release"}

overflow_checks == build = "debug"
debug_assertions == build = "debug"

\* A call that panics returns nothing: the thread unwinds through its
\* callers.  It takes the place of the result, and every caller that looks
\* at the result hands it on.
Panic(message) == [ok |-> FALSE, panic |-> message]

\* Option::unwrap on None
UnwrapNone == Panic("called 'Option::unwrap()' on a 'None' value")

-----------------------------------------------------------------------------
(* Sequences of bytes.                                                     *)

RECURSIVE Concat(_)
Concat(seqs) == IF seqs = <<>> THEN <<>> ELSE Head(seqs) \o Concat(Tail(seqs))

Fill(n, b) == [i \in 1..n |-> b]

Slice(s, from, to) == [i \in 1..(to - from) |-> s[from + i]]

Min(a, b) == IF a <= b THEN a ELSE b

-----------------------------------------------------------------------------
(* i128 as 16 big-endian two's-complement bytes.                           *)

I128Bytes == 16

\* Zero-extends big-endian bytes to the width of an i128.
Pad16(bytes) == Fill(I128Bytes - Len(bytes), 0) \o bytes

I128Zero == Fill(I128Bytes, 0)
I128One == Pad16(<<1>>)

I128IsNegative(a) == a[1] >= 128

\* a + b + carry on the low n bytes, wrapping.
RECURSIVE AddBytes(_, _, _, _)
AddBytes(a, b, n, carry) ==
    IF n = 0 THEN a
    ELSE LET s == a[n] + b[n] + carry
         IN  AddBytes([a EXCEPT ![n] = s % 256], b, n - 1, s \div 256)

I128Add(a, b) == AddBytes(a, b, I128Bytes, 0)
I128Not(a) == [i \in 1..I128Bytes |-> 255 - a[i]]

\* i128::MIN
I128_MIN == <<128>> \o Fill(I128Bytes - 1, 0)

\* The negation in two's complement, which leaves i128::MIN as it is.
I128WrappingNeg(a) == I128Add(I128Not(a), I128One)

\* The negation of i128::MIN overflows, which a build with overflow checks
\* turns into a panic.
I128NegPanics(a) == a = I128_MIN /\ overflow_checks

\* -a: the build without overflow checks wraps.
I128Neg(a) ==
    IF I128NegPanics(a)
    THEN Panic("attempt to negate with overflow")
    ELSE I128WrappingNeg(a)

I128Sub(a, b) == I128Add(a, I128WrappingNeg(b))

\* Lexicographic (memcmp) order on byte strings of equal length.
BytesLt(a, b) ==
    \E i \in 1..Len(a) : a[i] < b[i] /\ \A j \in 1..(i - 1) : a[j] = b[j]

I128Lt(a, b) ==
    IF I128IsNegative(a) # I128IsNegative(b) THEN I128IsNegative(a)
    ELSE BytesLt(a, b)
I128Le(a, b) == a = b \/ I128Lt(a, b)

\* lo..=hi contains num
RangeContains(lo, hi, num) == I128Le(lo, num) /\ I128Le(num, hi)

I32_MAX == Pad16(<<127, 255, 255, 255>>)
I32_MIN == Fill(I128Bytes - 4, 255) \o <<128, 0, 0, 0>>
U32_MAX == Pad16(<<255, 255, 255, 255>>)
I64_MAX == Pad16(<<127, 255, 255, 255, 255, 255, 255, 255>>)
I64_MIN == Fill(I128Bytes - 8, 255) \o <<128, 0, 0, 0, 0, 0, 0, 0>>
U64_MAX == Pad16(<<255, 255, 255, 255, 255, 255, 255, 255>>)

-----------------------------------------------------------------------------
(* UTF-8.                                                                  *)

\* The UTF-8 bytes of one Unicode scalar value.
Utf8Char(cp) ==
    IF cp < 128 THEN <<cp>>
    ELSE IF cp < 2048 THEN <<192 + (cp \div 64), 128 + (cp % 64)>>
    ELSE IF cp < 65536 THEN
        <<224 + (cp \div 4096), 128 + ((cp \div 64) % 64), 128 + (cp % 64)>>
    ELSE <<240 + (cp \div 262144), 128 + ((cp \div 4096) % 64),
           128 + ((cp \div 64) % 64), 128 + (cp % 64)>>

\* str::as_bytes
RECURSIVE as_bytes(_)
as_bytes(string) ==
    IF string = <<>> THEN <<>> ELSE Utf8Char(Head(string)) \o as_bytes(Tail(string))

IsContinuation(b) == b >= 128 /\ b < 192

\* str::from_utf8: the scalar values, or an error on malformed input.
RECURSIVE from_utf8(_)
from_utf8(bytes) ==
    IF bytes = <<>> THEN [ok |-> TRUE, string |-> <<>>]
    ELSE
        LET b == bytes[1]
            n == IF b < 128 THEN 1
                 ELSE IF b >= 194 /\ b < 224 THEN 2
                 ELSE IF b >= 224 /\ b < 240 THEN 3
                 ELSE IF b >= 240 /\ b < 245 THEN 4
                 ELSE 0
            wellFormed ==
                /\ n > 0
                /\ Len(bytes) >= n
                /\ \A i \in 2..n : IsContinuation(bytes[i])
            cp == IF n = 1 THEN b
                  ELSE IF n = 2 THEN (b - 192) * 64 + (bytes[2] - 128)
                  ELSE IF n = 3 THEN
                      (b - 224) * 4096 + (bytes[2] - 128) * 64 + (bytes[3] - 128)
                  ELSE (b - 240) * 262144 + (bytes[2] - 128) * 4096
                       + (bytes[3] - 128) * 64 + (bytes[4] - 128)
            scalar ==
                /\ n = 3 => cp >= 2048 /\ ~(cp >= 55296 /\ cp < 57344)
                /\ n = 4 => cp >= 65536 /\ cp < 1114112
        IN  IF ~wellFormed THEN [ok |-> FALSE, string |-> <<>>]
            ELSE IF ~scalar THEN [ok |-> FALSE, string |-> <<>>]
            ELSE LET rest == from_utf8(SubSeq(bytes, n + 1, Len(bytes)))
                 IN  IF rest.ok THEN [ok |-> TRUE, string |-> <<cp>> \o rest.string]
                     ELSE rest

-----------------------------------------------------------------------------
(* sql/statement.rs: data types, values, columns.                          *)

DtInt == [kind |-> "Int"]
DtUnsignedInt == [kind |-> "UnsignedInt"]
DtBigInt == [kind |-> "BigInt"]
DtUnsignedBigInt == [kind |-> "UnsignedBigInt"]
DtBool == [kind |-> "Bool"]
Varchar(max) == [kind |-> "Varchar", max |-> max]

IntegerKinds == {"Int", "UnsignedInt", "BigInt", "UnsignedBigInt"}

Number(num) == [tag |-> "Number", num |-> num]
String(string) == [tag |-> "String", string |-> string]
Boolean(b) == [tag |-> "Bool", bool |-> b]

\* Constraint
PrimaryKey == "PrimaryKey"
Unique == "Unique"

\* Column; the constraints are a Vec, in the order they were written.
Column(name, data_type, constraints) ==
    [name |-> name, data_type |-> data_type, constraints |-> constraints]

\* Vec::contains
Contains(vec, value) == \E i \in DOMAIN vec : vec[i] = value

-----------------------------------------------------------------------------
(* storage/tuple.rs                                                        *)


\* unreachable!()
Unreachable == Panic("internal error: entered unreachable code")

\* A slice or an index past the end of the buffer.
OutOfRange == Panic("index out of range")

byte_length_of_integer_type(data_type) ==
    CASE data_type.kind \in {"Int", "UnsignedInt"} -> 4
      [] data_type.kind \in {"BigInt", "UnsignedBigInt"} -> 8
      [] OTHER -> Unreachable

\* mem::size_of::<u32>()
SizeOfU32 == 4

\* u32::to_le_bytes
U32ToLeBytes(n) ==
    <<n % 256, (n \div 256) % 256, (n \div 65536) % 256, (n \div 16777216) % 256>>

\* u32::from_le_bytes
U32FromLeBytes(b) == b[1] + 256 * b[2] + 65536 * b[3] + 16777216 * b[4]

\* size_of: the closure panics on a Varchar column whose value is missing
\* or is not a String; the other columns do not look at the value.
size_of_col_panics(tuple, i, data_type) ==
    /\ data_type.kind = "Varchar"
    /\ (i > Len(tuple) \/ tuple[i].tag # "String")

size_of_col_chars(tuple, i, data_type) ==
    IF data_type.kind = "Bool" THEN 1
    ELSE IF data_type.kind = "Varchar" THEN
        IF i > Len(tuple) THEN OutOfRange
        ELSE IF tuple[i].tag # "String" THEN Panic("expected data type, found value")
        ELSE SizeOfU32 + Len(tuple[i].string)
    ELSE byte_length_of_integer_type(data_type)

\* The size of column i of the tuple, the closure of size_of.
size_of_col(tuple, i, data_type) ==
    IF data_type.kind = "Bool" THEN 1
    ELSE IF data_type.kind = "Varchar" THEN
        IF i > Len(tuple) THEN OutOfRange
        ELSE IF tuple[i].tag # "String" THEN Panic("expected data type, found value")
        ELSE SizeOfU32 + Len(as_bytes(tuple[i].string))
    ELSE byte_length_of_integer_type(data_type)

\* The sum over the columns of the schema, from column i on.
RECURSIVE SumSizes(_, _, _, _)
SumSizes(tuple, schema, i, sum) ==
    IF i > Len(schema) THEN sum
    ELSE IF size_of_col_panics(tuple, i, schema[i].data_type)
        THEN size_of_col(tuple, i, schema[i].data_type)
    ELSE SumSizes(tuple, schema, i + 1, sum + size_of_col(tuple, i, schema[i].data_type))

size_of(tuple, schema) == SumSizes(tuple, schema, 1, 0)

\* The range of values serialize accepts for an integer type.
IntegerBounds(data_type) ==
    CASE data_type.kind = "Int" -> <<I32_MIN, I32_MAX>>
      [] data_type.kind = "UnsignedInt" -> <<I128Zero, U32_MAX>>
      [] data_type.kind = "BigInt" -> <<I64_MIN, I64_MAX>>
      [] data_type.kind = "UnsignedBigInt" -> <<I128Zero, U64_MAX>>
      [] OTHER -> Unreachable

\* The assertion of serialize: bounds.contains(num).
SerializeAssertion(data_type, num) ==
    RangeContains(IntegerBounds(data_type)[1], IntegerBounds(data_type)[2], num)

\* The bytes one iteration of serialize appends.
Appended(bytes) == [ok |-> TRUE, bytes |-> bytes]

\* One iteration of serialize: the match on the column type and the value.
\* A string of more than u32::MAX bytes, at which serialize stops with
\* todo!(), is longer than any sequence here.
serialize_col(data_type, val) ==
    CASE data_type.kind = "Varchar" /\ val.tag = "String" ->
            Appended(U32ToLeBytes(Len(as_bytes(val.string))) \o as_bytes(val.string))
      [] data_type.kind = "Bool" /\ val.tag = "Bool" ->
            Appended(<<IF val.bool THEN 1 ELSE 0>>)
      [] val.tag = "Number" ->
            IF data_type.kind \notin IntegerKinds THEN IntegerBounds(data_type)
            ELSE IF ~SerializeAssertion(data_type, val.num)
                THEN Panic("integer overflow while serializing number")
            ELSE LET byte_length == byte_length_of_integer_type(data_type)
                     big_endian_bytes == val.num
                 IN  Appended(Slice(big_endian_bytes, Len(big_endian_bytes) - byte_length,
                                    Len(big_endian_bytes)))
      [] OTHER -> Panic("internal error: entered unreachable code: attempt to serialize")

\* The loop of serialize over schema.columns.iter().zip(values), from pair i
\* on, with the buffer filled so far.
RECURSIVE SerializeFrom(_, _, _, _)
SerializeFrom(schema, values, i, buf) ==
    IF i > Min(Len(schema), Len(values)) THEN buf
    ELSE LET col == serialize_col(schema[i].data_type, values[i])
         IN  IF ~col.ok THEN col
             ELSE SerializeFrom(schema, values, i + 1, buf \o col.bytes)

serialize(schema, values) ==
    IF debug_assertions /\ Len(schema) # Len(values)
    THEN Panic("length of schema and values must be the same")
    ELSE SerializeFrom(schema, values, 1, <<>>)

\* The value one iteration of deserialize pushes, and the cursor after it.
Pushed(value, cursor) == [ok |-> TRUE, value |-> value, cursor |-> cursor]

\* One iteration of deserialize at the cursor.
deserialize_col(buf, cursor, data_type) ==
    IF data_type.kind = "Varchar" THEN
        IF cursor + SizeOfU32 > Len(buf) THEN OutOfRange
        ELSE
        LET length == U32FromLeBytes(Slice(buf, cursor, cursor + SizeOfU32))
            start == cursor + SizeOfU32
        IN  IF start + length > Len(buf) THEN OutOfRange
            ELSE LET string == from_utf8(Slice(buf, start, start + length))
                 IN  IF ~string.ok
                     THEN Panic("called Result::unwrap() on an Err value: Utf8Error")
                     ELSE Pushed(String(string.string), start + length)
    ELSE IF data_type.kind = "Bool" THEN
        IF cursor >= Len(buf) THEN OutOfRange
        ELSE Pushed(Boolean(buf[cursor + 1] # 0), cursor + 1)
    ELSE
        LET byte_length == byte_length_of_integer_type(data_type)
            big_endian_buf ==
                Fill(I128Bytes - byte_length, 0) \o Slice(buf, cursor, cursor + byte_length)
        IN  IF cursor + byte_length > Len(buf) THEN OutOfRange
            ELSE Pushed(Number(big_endian_buf), cursor + byte_length)

\* The loop of deserialize from column i on, with the values pushed so far.
RECURSIVE DeserializeFrom(_, _, _, _, _)
DeserializeFrom(buf, schema, i, cursor, values) ==
    IF i > Len(schema) THEN values
    ELSE LET r == deserialize_col(buf, cursor, schema[i].data_type)
         IN  IF ~r.ok THEN r
             ELSE DeserializeFrom(buf, schema, i + 1, r.cursor, Append(values, r.value))

deserialize(buf, schema) == DeserializeFrom(buf, schema, 1, 0, <<>>)

-----------------------------------------------------------------------------
(* The tuple codec as a state machine: a schema and a conforming tuple are *)
(* chosen, then serialized, deserialized and measured.                     *)

MaxCols == 2

TupleTypes == {DtInt, DtUnsignedInt, DtBigInt, DtUnsignedBigInt, DtBool, Varchar(255)}

NumberSamples ==
    {I128Zero, I128One, I128WrappingNeg(I128One), I32_MAX, I32_MIN, U32_MAX,
     I64_MAX, I64_MIN, U64_MAX}

\* "", "a", "e-acute", "euro b", "grinning face": 1 to 4 byte scalars
StringSamples == {<<>>, <<97>>, <<233>>, <<8364, 98>>, <<128512>>}

\* The values that conform to a column type.
ValuesOf(data_type) ==
    IF data_type.kind = "Bool" THEN {Boolean(TRUE), Boolean(FALSE)}
    ELSE IF data_type.kind = "Varchar" THEN {String(s) : s \in StringSamples}
    ELSE {Number(n) : n \in {m \in NumberSamples : SerializeAssertion(data_type, m)}}

TupleColumnNames == <<"a", "b", "c", "d">>

TupleSchemas ==
    UNION {{[i \in 1..n |-> Column(TupleColumnNames[i], f[i], <<>>)] : f \in [1..n -> TupleTypes]}
           : n \in 1..MaxCols}

TuplesOf(schema) ==
    {t \in [1..Len(schema) -> UNION {ValuesOf(d) : d \in TupleTypes}] :
        \A i \in 1..Len(schema) : t[i] \in ValuesOf(schema[i].data_type)}

-----------------------------------------------------------------------------
(* sql/statement.rs: expressions and statements.  An Option is a sequence  *)
(* of at most one element.                                                 *)

Identifier(ident) == [node |-> "Identifier", ident |-> ident]
Value(value) == [node |-> "Value", value |-> value]
Wildcard == [node |-> "Wildcard"]
BinaryOperation(left, operator, right) ==
    [node |-> "BinaryOperation", left |-> left, operator |-> operator, right |-> right]
UnaryOperation(operator, expr) ==
    [node |-> "UnaryOperation", operator |-> operator, expr |-> expr]
Nested(expr) == [node |-> "Nested", expr |-> expr]

BinaryOperators ==
    {"Eq", "Neq", "Lt", "LtEq", "Gt", "GtEq", "Plus", "Minus", "Mul", "Div", "And", "Or"}
UnaryOperators == {"Plus", "Minus"}

Assignment(identifier, value) == [identifier |-> identifier, value |-> value]

Insert(into, columns, values) ==
    [kind |-> "Insert", into |-> into, columns |-> columns, values |-> values]
Select(columns, from, where, order_by) ==
    [kind |-> "Select", columns |-> columns, from |-> from, where |-> where,
     order_by |-> order_by]
Delete(from, where) == [kind |-> "Delete", from |-> from, where |-> where]
Update(table, columns, where) ==
    [kind |-> "Update", table |-> table, columns |-> columns, where |-> where]
\* Statement::Create(Create::Table { name, columns })
CreateTable(name, columns) ==
    [kind |-> "CreateTable", name |-> name, columns |-> columns]
\* Statement::Create(Create::Index { name, table, column, unique })
CreateIndex(name, table, column, unique) ==
    [kind |-> "CreateIndex", name |-> name, table |-> table, column |-> column,
     unique |-> unique]
\* Statement::Create(Create::Database(name))
CreateDatabase(name) == [kind |-> "CreateDatabase", name |-> name]
\* Statement::Drop(Drop::Table(name)) and Statement::Drop(Drop::Database(name))
DropTable(name) == [kind |-> "DropTable", name |-> name]
DropDatabase(name) == [kind |-> "DropDatabase", name |-> name]
StartTransaction == [kind |-> "StartTransaction"]
Rollback == [kind |-> "Rollback"]
Commit == [kind |-> "Commit"]
Explain(inner) == [kind |-> "Explain", inner |-> inner]

-----------------------------------------------------------------------------
(* The database context the analyzer reads: Schema and TableMetadata.      *)

ROW_ID_COL == "row_id"
MKDB_META == "mkdb_meta"

\* Schema::index_of: the position of the column (from 1), 0 for None.
index_of(schema, name) ==
    IF \E i \in 1..Len(schema) : schema[i].name = name
    THEN CHOOSE i \in 1..Len(schema) :
            /\ schema[i].name = name
            /\ \A j \in 1..(i - 1) : schema[j].name # name
    ELSE 0

\* Schema::column_identifiers
column_identifiers(schema) == [i \in 1..Len(schema) |-> schema[i].name]

\* The VmDataType of a DataType.
VmDataType(data_type) ==
    IF data_type.kind = "Bool" THEN "Bool"
    ELSE IF data_type.kind = "Varchar" THEN "String"
    ELSE "Number"

\* tuple::integer_is_within_range
integer_is_within_range(integer, data_type) ==
    RangeContains(IntegerBounds(data_type)[1], IntegerBounds(data_type)[2], integer)

-----------------------------------------------------------------------------
(* sql/analyzer.rs                                                         *)

Ok == [ok |-> TRUE]
OkType(type) == [ok |-> TRUE, type |-> type]
Err(error, args) == [ok |-> FALSE, error |-> error, args |-> args]

InvalidTable(name) == Err("InvalidTable", <<name>>)
InvalidColumn(name) == Err("InvalidColumn", <<name>>)
Other(message) == Err("Other", <<message>>)
ExpectedType(expected, found) == Err("ExpectedType", <<expected, found>>)
CannotApplyBinary(left, operator, right) == Err("CannotApplyBinary", <<left, operator, right>>)
ColumnValueCountMismatch == Err("ColumnValueCountMismatch", <<>>)
MissingColumns == Err("MissingColumns", <<>>)
DuplicatedColumn(name) == Err("DuplicatedColumn", <<name>>)
ValueTooLong(string, max) == Err("ValueTooLong", <<string, max>>)
IntegerOutOfRange(integer, data_type) == Err("IntegerOutOfRange", <<integer, data_type>>)
MultiplePrimaryKeys == Err("MultiplePrimaryKeys", <<>>)
\* AnalyzerError::AlreadyExists(AlreadyExists::Table(name) | ::Index(name))
AlreadyExists(kind, name) == Err("AlreadyExists", <<kind, name>>)
RowIdAssignment == Err("RowIdAssignment", <<>>)
MkdbMetaModification == Err("MkdbMetaModification", <<>>)

\* Option<&DataType>::None
NoDataType == [kind |-> "None"]

\* DatabaseContext::table_metadata
table_metadata(ctx, table) ==
    IF table \in DOMAIN ctx THEN [ok |-> TRUE, metadata |-> ctx[table]]
    ELSE InvalidTable(table)

analyze_integer_range(integer, data_type) ==
    IF data_type.kind \in IntegerKinds /\ ~integer_is_within_range(integer, data_type)
    THEN IntegerOutOfRange(integer, data_type)
    ELSE Ok

\* analyze_expression with AND and OR accepted for operands of any equal type.
RECURSIVE analyze_expression_untyped_logic(_, _, _)
analyze_expression_untyped_logic(schema, col_data_type, expr) ==
    CASE expr.node = "Value" ->
            IF expr.value.tag = "Bool" THEN OkType("Bool")
            ELSE IF expr.value.tag = "String" THEN OkType("String")
            ELSE LET range == IF col_data_type # NoDataType
                              THEN analyze_integer_range(expr.value.num, col_data_type)
                              ELSE Ok
                 IN  IF range.ok THEN OkType("Number") ELSE range
      [] expr.node = "Identifier" ->
            LET index == index_of(schema, expr.ident)
            IN  IF index = 0 THEN InvalidColumn(expr.ident)
                ELSE OkType(VmDataType(schema[index].data_type))
      [] expr.node = "UnaryOperation" ->
            IF /\ col_data_type # NoDataType
               /\ expr.operator = "Minus"
               /\ expr.expr.node = "Value"
               /\ expr.expr.value.tag = "Number"
            THEN IF I128NegPanics(expr.expr.value.num)
                 THEN I128Neg(expr.expr.value.num)
                 ELSE LET range == analyze_integer_range(I128Neg(expr.expr.value.num),
                                                         col_data_type)
                      IN  IF range.ok THEN OkType("Number") ELSE range
            ELSE LET inner == analyze_expression_untyped_logic(schema, col_data_type, expr.expr)
                 IN  IF ~inner.ok THEN inner
                     ELSE IF inner.type = "Number" THEN OkType("Number")
                     ELSE ExpectedType("Number", expr.expr)
      [] expr.node = "BinaryOperation" ->
            LET left_data_type == analyze_expression_untyped_logic(schema, col_data_type, expr.left)
                right_data_type == analyze_expression_untyped_logic(schema, col_data_type, expr.right)
                mismatched_types == CannotApplyBinary(expr.left, expr.operator, expr.right)
            IN  IF ~left_data_type.ok THEN left_data_type
                ELSE IF ~right_data_type.ok THEN right_data_type
                ELSE IF left_data_type.type # right_data_type.type THEN mismatched_types
                ELSE IF expr.operator \in {"Eq", "Neq", "Lt", "LtEq", "Gt", "GtEq"}
                    THEN OkType("Bool")
                ELSE IF expr.operator \in {"And", "Or"}
                    THEN OkType("Bool")
                ELSE IF /\ expr.operator \in {"Plus", "Minus", "Div", "Mul"}
                        /\ left_data_type.type = "Number"
                    THEN OkType("Number")
                ELSE mismatched_types
      [] expr.node = "Nested" -> analyze_expression_untyped_logic(schema, col_data_type, expr.expr)
      [] expr.node = "Wildcard" -> Other("unexpected wildcard expression (*)")

RECURSIVE analyze_expression(_, _, _)
analyze_expression(schema, col_data_type, expr) ==
    CASE expr.node = "Value" ->
            IF expr.value.tag = "Bool" THEN OkType("Bool")
            ELSE IF expr.value.tag = "String" THEN OkType("String")
            ELSE LET range == IF col_data_type # NoDataType
                              THEN analyze_integer_range(expr.value.num, col_data_type)
                              ELSE Ok
                 IN  IF range.ok THEN OkType("Number") ELSE range
      [] expr.node = "Identifier" ->
            LET index == index_of(schema, expr.ident)
            IN  IF index = 0 THEN InvalidColumn(expr.ident)
                ELSE OkType(VmDataType(schema[index].data_type))
      [] expr.node = "UnaryOperation" ->
            IF /\ col_data_type # NoDataType
               /\ expr.operator = "Minus"
               /\ expr.expr.node = "Value"
               /\ expr.expr.value.tag = "Number"
            THEN IF I128NegPanics(expr.expr.value.num)
                 THEN I128Neg(expr.expr.value.num)
                 ELSE LET range == analyze_integer_range(I128Neg(expr.expr.value.num),
                                                         col_data_type)
                      IN  IF range.ok THEN OkType("Number") ELSE range
            ELSE LET inner == analyze_expression(schema, col_data_type, expr.expr)
                 IN  IF ~inner.ok THEN inner
                     ELSE IF inner.type = "Number" THEN OkType("Number")
                     ELSE ExpectedType("Number", expr.expr)
      [] expr.node = "BinaryOperation" ->
            LET left_data_type == analyze_expression(schema, col_data_type, expr.left)
                right_data_type == analyze_expression(schema, col_data_type, expr.right)
                mismatched_types == CannotApplyBinary(expr.left, expr.operator, expr.right)
            IN  IF ~left_data_type.ok THEN left_data_type
                ELSE IF ~right_data_type.ok THEN right_data_type
                ELSE IF left_data_type.type # right_data_type.type THEN mismatched_types
                ELSE IF expr.operator \in {"Eq", "Neq", "Lt", "LtEq", "Gt", "GtEq"}
                    THEN OkType("Bool")
                ELSE IF expr.operator \in {"And", "Or"} /\ left_data_type.type = "Bool"
                    THEN OkType("Bool")
                ELSE IF /\ expr.operator \in {"Plus", "Minus", "Div", "Mul"}
                        /\ left_data_type.type = "Number"
                    THEN OkType("Number")
                ELSE mismatched_types
      [] expr.node = "Nested" -> analyze_expression(schema, col_data_type, expr.expr)
      [] expr.node = "Wildcard" -> Other("unexpected wildcard expression (*)")

\* analyze_where without the comparison against VmDataType::Bool.
analyze_where_any_type(schema, where) ==
    IF where = <<>> THEN Ok
    ELSE LET type == analyze_expression(schema, NoDataType, where[1])
         IN  IF ~type.ok THEN type ELSE Ok

analyze_where(schema, where) ==
    IF where = <<>> THEN Ok
    ELSE LET expr == where[1]
             type == analyze_expression(schema, NoDataType, expr)
         IN  IF ~type.ok THEN type
             ELSE IF type.type = "Bool" THEN Ok
             ELSE ExpectedType("Bool", expr)

\* str::chars().count()
chars_count(string) == Len(string)

analyze_assignment(table, column, value, allow_identifiers) ==
    IF column = ROW_ID_COL THEN RowIdAssignment
    ELSE LET index == index_of(table.schema, column)
         IN  IF index = 0 THEN InvalidColumn(column)
             ELSE
             LET data_type == table.schema[index].data_type
                 expected_data_type == VmDataType(data_type)
                 pre_eval_data_type ==
                     IF allow_identifiers
                     THEN analyze_expression(table.schema, data_type, value)
                     ELSE analyze_expression(<<>>, data_type, value)
             IN  IF ~pre_eval_data_type.ok THEN pre_eval_data_type
                 ELSE IF expected_data_type # pre_eval_data_type.type
                     THEN ExpectedType(expected_data_type, value)
                 ELSE IF /\ data_type.kind = "Varchar"
                         /\ value.node = "Value"
                         /\ value.value.tag = "String"
                         /\ chars_count(value.value.string) > data_type.max
                     THEN ValueTooLong(value.value.string, data_type.max)
                 ELSE Ok

\* analyze, Statement::Insert: the columns the values are assigned to.
insert_columns(metadata, columns) ==
    IF columns = <<>>
    THEN LET schema_column_names_copy == column_identifiers(metadata.schema)
         IN  IF schema_column_names_copy[1] = ROW_ID_COL
             THEN Tail(schema_column_names_copy)
             ELSE schema_column_names_copy
    ELSE columns

\* analyze, Statement::Insert: the loop over the columns.
\* The loop over the columns without the HashSet of names already seen.
RECURSIVE insert_check_columns_allow_duplicates(_, _, _, _)
insert_check_columns_allow_duplicates(metadata, columns, i, duplicates) ==
    IF i > Len(columns) THEN Ok
    ELSE LET col == columns[i]
         IN  IF index_of(metadata.schema, col) = 0 THEN InvalidColumn(col)
             ELSE IF col = ROW_ID_COL THEN RowIdAssignment
             ELSE insert_check_columns_allow_duplicates(metadata, columns, i + 1, duplicates)

RECURSIVE insert_check_columns(_, _, _, _)
insert_check_columns(metadata, columns, i, duplicates) ==
    IF i > Len(columns) THEN Ok
    ELSE LET col == columns[i]
         IN  IF index_of(metadata.schema, col) = 0 THEN InvalidColumn(col)
             ELSE IF col \in duplicates THEN DuplicatedColumn(col)
             ELSE IF col = ROW_ID_COL THEN RowIdAssignment
             ELSE insert_check_columns(metadata, columns, i + 1, duplicates \cup {col})

\* analyze, Statement::Insert: the loop over values.iter().zip(columns).
RECURSIVE insert_check_values(_, _, _, _)
insert_check_values(metadata, columns, values, i) ==
    IF i > Min(Len(values), Len(columns)) THEN Ok
    ELSE LET r == analyze_assignment(metadata, columns[i], values[i], FALSE)
         IN  IF ~r.ok THEN r ELSE insert_check_values(metadata, columns, values, i + 1)

\* analyze, Statement::Insert, with the count of the values compared after the
\* loop over the columns.
analyze_insert_columns_before_count(statement, ctx) ==
    LET found == table_metadata(ctx, statement.into)
    IN  IF ~found.ok THEN found
        ELSE IF statement.into = MKDB_META THEN MkdbMetaModification
        ELSE IF statement.columns = <<>> /\ found.metadata.schema = <<>> THEN OutOfRange
        ELSE
        LET metadata == found.metadata
            columns == insert_columns(metadata, statement.columns)
            checked == insert_check_columns(metadata, columns, 1, {})
            schema_len == IF metadata.schema[1].name = ROW_ID_COL
                          THEN Len(metadata.schema) - 1
                          ELSE Len(metadata.schema)
        IN  IF ~checked.ok THEN checked
            ELSE IF Len(columns) # Len(statement.values) THEN ColumnValueCountMismatch
            ELSE IF schema_len # Len(columns) THEN MissingColumns
            ELSE insert_check_values(metadata, columns, statement.values, 1)

analyze_insert(statement, ctx) ==
    LET found == table_metadata(ctx, statement.into)
    IN  IF ~found.ok THEN found
        ELSE IF statement.into = MKDB_META THEN MkdbMetaModification
        ELSE IF statement.columns = <<>> /\ found.metadata.schema = <<>> THEN OutOfRange
        ELSE
        LET metadata == found.metadata
            columns == insert_columns(metadata, statement.columns)
            checked == insert_check_columns(metadata, columns, 1, {})
            schema_len == IF metadata.schema[1].name = ROW_ID_COL
                          THEN Len(metadata.schema) - 1
                          ELSE Len(metadata.schema)
        IN  IF Len(columns) # Len(statement.values) THEN ColumnValueCountMismatch
            ELSE IF ~checked.ok THEN checked
            ELSE IF schema_len # Len(columns) THEN MissingColumns
            ELSE insert_check_values(metadata, columns, statement.values, 1)

\* analyze, Statement::Select: the loops over columns and order_by.
RECURSIVE analyze_expressions(_, _, _, _)
analyze_expressions(schema, exprs, i, skip_wildcard) ==
    IF i > Len(exprs) THEN Ok
    ELSE LET r == IF skip_wildcard /\ exprs[i] = Wildcard THEN Ok
                  ELSE analyze_expression(schema, NoDataType, exprs[i])
         IN  IF ~r.ok THEN r ELSE analyze_expressions(schema, exprs, i + 1, skip_wildcard)

analyze_select(statement, ctx) ==
    LET found == table_metadata(ctx, statement.from)
    IN  IF ~found.ok THEN found
        ELSE
        LET schema == found.metadata.schema
            columns == analyze_expressions(schema, statement.columns, 1, TRUE)
            where == analyze_where(schema, statement.where)
            order_by == analyze_expressions(schema, statement.order_by, 1, FALSE)
        IN  IF ~columns.ok THEN columns
            ELSE IF ~where.ok THEN where
            ELSE IF ~order_by.ok THEN order_by
            ELSE Ok

analyze_delete(statement, ctx) ==
    LET found == table_metadata(ctx, statement.from)
    IN  IF ~found.ok THEN found
        ELSE IF statement.from = MKDB_META THEN MkdbMetaModification
        ELSE analyze_where(found.metadata.schema, statement.where)

\* analyze, Statement::Update: the loop over the assignments.
RECURSIVE update_check_assignments(_, _, _)
update_check_assignments(metadata, columns, i) ==
    IF i > Len(columns) THEN Ok
    ELSE LET r == analyze_assignment(metadata, columns[i].identifier, columns[i].value, TRUE)
         IN  IF ~r.ok THEN r ELSE update_check_assignments(metadata, columns, i + 1)

\* Statement::Update with the mkdb_meta test made after the assignments.
analyze_update_assignments_first(statement, ctx) ==
    LET found == table_metadata(ctx, statement.table)
    IN  IF ~found.ok THEN found
        ELSE LET assigned == update_check_assignments(found.metadata, statement.columns, 1)
             IN  IF ~assigned.ok THEN assigned
                 ELSE IF statement.table = MKDB_META THEN MkdbMetaModification
                 ELSE analyze_where(found.metadata.schema, statement.where)

analyze_update(statement, ctx) ==
    LET found == table_metadata(ctx, statement.table)
    IN  IF ~found.ok THEN found
        ELSE IF statement.table = MKDB_META THEN MkdbMetaModification
        ELSE LET assigned == update_check_assignments(found.metadata, statement.columns, 1)
             IN  IF ~assigned.ok THEN assigned
                 ELSE analyze_where(found.metadata.schema, statement.where)

\* The loop over the columns without the check of found_primary_key.
RECURSIVE create_check_columns_any_primary_keys(_, _, _, _)
create_check_columns_any_primary_keys(columns, i, found_primary_key, duplicates) ==
    IF i > Len(columns) THEN Ok
    ELSE LET col == columns[i]
         IN  IF col.name \in duplicates THEN DuplicatedColumn(col.name)
             ELSE IF col.name = ROW_ID_COL THEN RowIdAssignment
             ELSE create_check_columns_any_primary_keys(
                        columns, i + 1, found_primary_key, duplicates \cup {col.name})

\* analyze, Statement::Create(Create::Table): the loop over the columns.
RECURSIVE create_check_columns(_, _, _, _)
create_check_columns(columns, i, found_primary_key, duplicates) ==
    IF i > Len(columns) THEN Ok
    ELSE LET col == columns[i]
         IN  IF col.name \in duplicates THEN DuplicatedColumn(col.name)
             ELSE IF col.name = ROW_ID_COL THEN RowIdAssignment
             ELSE IF Contains(col.constraints, PrimaryKey) /\ found_primary_key
                 THEN MultiplePrimaryKeys
             ELSE create_check_columns(
                        columns, i + 1,
                        found_primary_key \/ Contains(col.constraints, PrimaryKey),
                        duplicates \cup {col.name})

analyze_create_table(statement, ctx) ==
    LET found == table_metadata(ctx, statement.name)
    IN  IF found.ok THEN AlreadyExists("Table", statement.name)
        ELSE IF found.error # "InvalidTable" THEN found
        ELSE create_check_columns(statement.columns, 1, FALSE, {})

analyze_create_index(statement, ctx) ==
    IF ~statement.unique THEN Other("non-unique indexes are not supported")
    ELSE LET found == table_metadata(ctx, statement.table)
         IN  IF ~found.ok THEN found
             ELSE IF \E i \in DOMAIN found.metadata.indexes :
                        found.metadata.indexes[i].name = statement.name
                 THEN AlreadyExists("Index", statement.name)
             ELSE Ok

RECURSIVE analyze(_, _)
analyze(statement, ctx) ==
    CASE statement.kind = "CreateTable" -> analyze_create_table(statement, ctx)
      [] statement.kind = "CreateIndex" -> analyze_create_index(statement, ctx)
      [] statement.kind = "Insert" -> analyze_insert(statement, ctx)
      [] statement.kind = "Select" -> analyze_select(statement, ctx)
      [] statement.kind = "Delete" -> analyze_delete(statement, ctx)
      [] statement.kind = "Update" -> analyze_update(statement, ctx)
      [] statement.kind = "Explain" -> analyze(statement.inner, ctx)
      [] statement.kind = "DropTable" ->
            LET found == table_metadata(ctx, statement.name)
            IN  IF ~found.ok THEN found ELSE Ok
      [] OTHER -> Ok

-----------------------------------------------------------------------------
(* The analyzer as a state machine: a statement comes out of the parser    *)
(* and analyze is called on it against a fixed catalog.                    *)

\* Tables without a primary key start with the row_id column.
RowIdColumn == Column(ROW_ID_COL, DtUnsignedBigInt, <<PrimaryKey>>)

TableMetadata(schema) == [schema |-> schema]

Catalog ==
    [t \in {"users", "tasks", "big", "ubig", MKDB_META} |->
        CASE t = "users" ->
                TableMetadata(<<Column("id", DtInt, <<PrimaryKey>>),
                                Column("name", Varchar(2), <<>>)>>)
          [] t = "tasks" ->
                TableMetadata(<<RowIdColumn, Column("id", DtUnsignedInt, <<>>),
                                Column("ok", DtBool, <<>>)>>)
          [] t = "big" -> TableMetadata(<<Column("id", DtBigInt, <<PrimaryKey>>)>>)
          [] t = "ubig" ->
                TableMetadata(<<RowIdColumn, Column("id", DtUnsignedBigInt, <<>>)>>)
          [] t = MKDB_META ->
                TableMetadata(<<RowIdColumn, Column("name", Varchar(255), <<Unique>>),
                                Column("root", DtUnsignedInt, <<>>)>>)]

\* The tables statements name; "nope" is in no catalog.
TableNames == DOMAIN Catalog \cup {"nope"}

\* The columns statements name; "zz" is in no schema.
ColumnNames == {"id", "name", "ok", ROW_ID_COL, "zz"}

\* The user columns of a table: its schema without a leading row_id.
UserColumns(schema) ==
    IF schema[1].name = ROW_ID_COL THEN Tail(column_identifiers(schema))
    ELSE column_identifiers(schema)

\* 2^31, 2^32, 2^63 and 2^64, and their neighbours: the limits of the four
\* integer types.
NumberLiterals ==
    {I128Zero, I128One,
     I32_MAX, I128Add(I32_MAX, I128One), I128Add(I32_MAX, Pad16(<<2>>)),
     U32_MAX, I128Add(U32_MAX, I128One),
     I64_MAX, I128Add(I64_MAX, I128One), I128Add(I64_MAX, Pad16(<<2>>)),
     U64_MAX, I128Add(U64_MAX, I128One)}

\* "", "ab", "abc", and two and three characters of more than one byte each
StringLiterals == {<<>>, <<97, 98>>, <<97, 98, 99>>, <<233, 233>>, <<233, 233, 8364>>}

Literals ==
    {Value(Number(n)) : n \in NumberLiterals}
        \cup {Value(String(x)) : x \in StringLiterals}
        \cup {Value(Boolean(TRUE))}

\* -e, +e and (e)
Wrap(exprs) ==
    {UnaryOperation(op, e) : op \in UnaryOperators, e \in exprs}
        \cup {Nested(e) : e \in exprs}

RECURSIVE Wrapped(_, _)
Wrapped(exprs, depth) ==
    IF depth = 0 THEN exprs ELSE exprs \cup Wrap(Wrapped(exprs, depth - 1))

\* How many unary operators and parentheses are put around a literal.
MaxWrap == 2

One == Value(Number(I128One))
SimpleValues == {One, Value(String(<<97>>)), Value(Boolean(TRUE))}

\* Literals, wrapped literals, a literal plus or minus 1, and every binary
\* operator over simple values.
AssignExprs ==
    Wrapped(Literals, MaxWrap)
        \cup {BinaryOperation(Value(Number(n)), op, One) :
                n \in NumberLiterals, op \in {"Plus", "Minus"}}
        \cup {BinaryOperation(l, op, r) :
                l \in SimpleValues, op \in BinaryOperators, r \in SimpleValues}

\* UPDATE may also assign from columns.
UpdateExprs ==
    AssignExprs
        \cup {Identifier(c) : c \in ColumnNames}
        \cup {BinaryOperation(Identifier(c), op, One) :
                c \in ColumnNames, op \in {"Plus", "Eq"}}

\* A value of the column's type, for a column of the schema.
SimpleValueFor(schema, col) ==
    LET index == index_of(schema, col)
    IN  IF index = 0 THEN One
        ELSE CASE VmDataType(schema[index].data_type) = "Number" -> One
               [] VmDataType(schema[index].data_type) = "String" -> Value(String(<<97>>))
               [] VmDataType(schema[index].data_type) = "Bool" -> Value(Boolean(TRUE))

\* The schema of a table in a context, empty for a table that is not there.
SchemaIn(ctx, table) == IF table \in DOMAIN ctx THEN ctx[table].schema ELSE <<>>
SchemaOf(table) == SchemaIn(Catalog, table)

\* The longest explicit column list of an INSERT.
MaxColumnList == 3

ColumnLists == UNION {[1..n -> ColumnNames] : n \in 0..MaxColumnList}

\* INSERTs that vary the column list: the values are of the columns' types,
\* as many as the columns, one more, or one of another type.
InsertsByColumns(ctx) ==
    UNION {
        LET schema == SchemaIn(ctx, into)
            names == IF columns = <<>> /\ schema # <<>> THEN UserColumns(schema)
                     ELSE columns
            values == [i \in 1..Len(names) |-> SimpleValueFor(schema, names[i])]
        IN  {Insert(into, columns, values),
             Insert(into, columns, values \o <<One>>),
             Insert(into, columns, [i \in 1..Len(names) |-> Value(Boolean(TRUE))])}
        : into \in {"users", "tasks", MKDB_META, "nope"}, columns \in ColumnLists}

\* The column lists that name each user column once: none, in schema order,
\* and reversed.
Reverse(seq) == [i \in 1..Len(seq) |-> seq[Len(seq) + 1 - i]]
FullColumnLists(schema) == {<<>>, UserColumns(schema), Reverse(UserColumns(schema))}

\* INSERTs that vary one value: every other value is of its column's type.
InsertsByValue(ctx) ==
    UNION {
        LET into == into_columns[1]
            columns == into_columns[2]
            schema == ctx[into].schema
            names == IF columns = <<>> THEN UserColumns(schema) ELSE columns
        IN  {Insert(into, columns,
                    [i \in 1..Len(names) |->
                        IF i = k THEN expr ELSE SimpleValueFor(schema, names[i])]) :
                k \in 1..Len(names), expr \in AssignExprs}
        : into_columns \in
            UNION {{<<t, l>> : l \in FullColumnLists(ctx[t].schema)} :
                   t \in DOMAIN ctx \ {MKDB_META}}}

\* WHERE clauses: absent, of type Bool, Number and String, and ill-typed.
WhereExprs ==
    {Identifier(c) : c \in ColumnNames}
        \cup {BinaryOperation(Identifier(c), op, r) :
                c \in ColumnNames, op \in {"Eq", "Lt", "Plus"},
                r \in {One, Value(String(<<97>>))}}
        \cup {BinaryOperation(l, op, r) :
                l \in SimpleValues, op \in {"Eq", "Plus", "And"}, r \in SimpleValues}
        \cup {BinaryOperation(BinaryOperation(Identifier("id"), "Lt", One), op,
                               BinaryOperation(Identifier(c), "Eq", One)) :
                c \in ColumnNames, op \in {"And", "Or", "Eq", "Plus"}}
        \cup SimpleValues
        \cup {Nested(e) : e \in SimpleValues}
        \cup {UnaryOperation("Minus", One), Wildcard}

Wheres == {<<>>} \cup {<<e>> : e \in WhereExprs}
FewWheres ==
    {<<>>, <<BinaryOperation(Identifier("id"), "Eq", One)>>,
     <<BinaryOperation(One, "Plus", One)>>, <<Identifier("name")>>}

\* UPDATEs of one assignment of any expression, and of two assignments of
\* simple values.
Updates(ctx) ==
    {Update(table, <<Assignment(c, e)>>, <<>>) :
        table \in DOMAIN ctx \ {MKDB_META}, c \in {"id", "name", ROW_ID_COL},
        e \in UpdateExprs}
    \cup
    {Update(table, <<Assignment(c1, SimpleValueFor(SchemaIn(ctx, table), c1)),
                     Assignment(c2, e2)>>, where) :
        table \in TableNames, c1 \in ColumnNames, c2 \in ColumnNames,
        e2 \in SimpleValues, where \in FewWheres}
    \cup
    {Update(table, <<Assignment(c, SimpleValueFor(SchemaIn(ctx, table), c))>>, where) :
        table \in TableNames, c \in ColumnNames, where \in Wheres}

Deletes == {Delete(from, where) : from \in TableNames, where \in Wheres}

Selects ==
    {Select(columns, from, where, order_by) :
        columns \in {<<Wildcard>>, <<Identifier("id")>>, <<Identifier("zz")>>,
                      <<BinaryOperation(Identifier("id"), "Plus", One)>>},
        from \in TableNames,
        where \in FewWheres,
        order_by \in {<<>>, <<Identifier("id")>>, <<Identifier("zz")>>}}
    \cup
    {Select(<<Wildcard>>, from, where, <<>>) : from \in TableNames, where \in Wheres}

Explains ==
    {Explain(statement) : statement \in Deletes}
        \cup {Explain(Explain(Delete(from, <<>>))) : from \in TableNames}

\* DROP TABLE looks its table up; the other statements need no analysis.
Drops ==
    {DropTable(name) : name \in TableNames}
        \cup {Explain(DropTable(name)) : name \in TableNames}
        \cup {DropDatabase("nope"), CreateDatabase("nope"), StartTransaction,
              Commit, Rollback}

\* The statements analyzed against the tables of a context.
Statements(ctx) ==
    InsertsByColumns(ctx) \cup InsertsByValue(ctx) \cup Updates(ctx) \cup Deletes
        \cup Selects \cup Explains \cup Drops

AnalyzerInit ==
    /\ a_tables = Catalog
    /\ a_stmt \in Statements(a_tables)
    /\ a_result = Ok
    /\ a_pc = "parsed" /\ a_meta = <<>>
    /\ t_schema = <<>> /\ t_tuple = <<>> /\ t_buf = <<>> /\ t_out = <<>>
    /\ t_size = 0 /\ t_pc = "idle"
    /\ page_size = 0 /\ block_size = 0 /\ io_vec = <<>> /\ io_pos = 0
    /\ io_last = <<>> /\ io_op = "idle" /\ io_page = 0 /\ io_buf = <<>> /\ io_ret = [ok |-> TRUE]
    /\ io_len = 0
    /\ p_stmt = [kind |-> "None"] /\ p_scan = [node |-> "None"]
    /\ p_plan = [node |-> "None"]
    /\ x_schema = <<>> /\ x_col = [kind |-> "None"] /\ x_expr = [node |-> "None"]
    /\ x_type = [ok |-> TRUE] /\ x_pc = "idle"
    /\ k_stream = <<>> /\ k_reached_eof = FALSE /\ k_items = <<>> /\ k_result = <<>>
    /\ build \in Builds

\* analyze(&statement, &mut ctx)
Analyze ==
    /\ a_pc = "parsed"
    /\ a_result' = analyze(a_stmt, a_tables)
    /\ a_pc' = "analyzed"
    /\ UNCHANGED <<a_tables, a_stmt, a_meta>>
    /\ UNCHANGED <<tupleVars, ioVars, plannerVars, typingVars, tokenizerVars, build>>

AnalyzerNext == Analyze

SpecAnalyzer == AnalyzerInit /\ [][AnalyzerNext]_vars

-----------------------------------------------------------------------------
(* analyze_expression on one binary operation.                             *)

TypingSchema ==
    <<Column("id", DtInt, <<PrimaryKey>>), Column("name", Varchar(2), <<>>),
      Column("ok", DtBool, <<>>)>>

\* Operands that type as Bool, Number and String.
OperandsOf(type) ==
    CASE type = "Bool" ->
            {Value(Boolean(TRUE)), Identifier("ok"), Nested(Value(Boolean(FALSE))),
             BinaryOperation(One, "Lt", Identifier("id"))}
      [] type = "Number" ->
            {One, Identifier("id"), UnaryOperation("Minus", One),
             BinaryOperation(One, "Plus", Identifier("id"))}
      [] type = "String" ->
            {Value(String(<<97>>)), Identifier("name"), Nested(Identifier("name"))}

VmDataTypes == {"Bool", "Number", "String"}

\* Operands that do not type, and the error each gives.
FailingOperands ==
    {Identifier("zz"), Wildcard, UnaryOperation("Minus", Identifier("name")),
     BinaryOperation(One, "Plus", Value(String(<<97>>)))}

ErrorOf(operand) ==
    CASE operand = Identifier("zz") -> InvalidColumn("zz")
      [] operand = Wildcard -> Other("unexpected wildcard expression (*)")
      [] operand = UnaryOperation("Minus", Identifier("name")) ->
            ExpectedType("Number", Identifier("name"))
      [] OTHER -> CannotApplyBinary(One, "Plus", Value(String(<<97>>)))

Operands == UNION {OperandsOf(type) : type \in VmDataTypes} \cup FailingOperands

TypingInit ==
    /\ x_schema = TypingSchema
    /\ x_col \in {NoDataType, DtInt}
    /\ x_expr \in {BinaryOperation(left, operator, right) :
                        left \in Operands, operator \in BinaryOperators, right \in Operands}
    /\ x_type = Ok
    /\ x_pc = "parsed"
    /\ t_schema = <<>> /\ t_tuple = <<>> /\ t_buf = <<>> /\ t_out = <<>>
    /\ t_size = 0 /\ t_pc = "idle"
    /\ page_size = 0 /\ block_size = 0 /\ io_vec = <<>> /\ io_pos = 0
    /\ io_last = <<>> /\ io_op = "idle" /\ io_page = 0 /\ io_buf = <<>> /\ io_ret = [ok |-> TRUE]
    /\ io_len = 0
    /\ a_tables = <<>> /\ a_stmt = [kind |-> "None"] /\ a_result = [ok |-> TRUE]
    /\ a_pc = "idle" /\ a_meta = <<>>
    /\ p_stmt = [kind |-> "None"] /\ p_scan = [node |-> "None"]
    /\ p_plan = [node |-> "None"]
    /\ k_stream = <<>> /\ k_reached_eof = FALSE /\ k_items = <<>> /\ k_result = <<>>
    /\ build \in Builds

\* analyze_expression(&schema, col_data_type, &expr)
AnalyzeExpression ==
    /\ x_pc = "parsed"
    /\ x_type' = analyze_expression(x_schema, x_col, x_expr)
    /\ x_pc' = "typed"
    /\ UNCHANGED <<x_schema, x_col, x_expr>>
    /\ UNCHANGED <<tupleVars, ioVars, analyzerVars, plannerVars, tokenizerVars, build>>

TypingNext == AnalyzeExpression

SpecTyping == TypingInit /\ [][TypingNext]_vars

Comparisons == {"Eq", "Neq", "Lt", "LtEq", "Gt", "GtEq"}
Logical == {"And", "Or"}
Arithmetic == {"Plus", "Minus", "Mul", "Div"}

\* C11: a binary operation whose operands type differently is rejected with
\* CannotApplyBinary; with equal operand types a comparison is Bool, AND and
\* OR are Bool for Bool operands only, + - * / are Number for Number operands
\* only, anything else is CannotApplyBinary; the left operand's error is
\* reported before the right one's.
C11_BinaryTyping ==
    x_pc = "typed" =>
        LET left == x_expr.left
            right == x_expr.right
            operator == x_expr.operator
            cannot == CannotApplyBinary(left, operator, right)
        IN  /\ left \in FailingOperands => x_type = ErrorOf(left)
            /\ (left \notin FailingOperands /\ right \in FailingOperands)
                    => x_type = ErrorOf(right)
            /\ \A tl, tr \in VmDataTypes :
                  (left \in OperandsOf(tl) /\ right \in OperandsOf(tr)) =>
                      x_type = IF tl # tr THEN cannot
                               ELSE IF operator \in Comparisons THEN OkType("Bool")
                               ELSE IF operator \in Logical /\ tl = "Bool" THEN OkType("Bool")
                               ELSE IF operator \in Arithmetic /\ tl = "Number"
                                    THEN OkType("Number")
                               ELSE cannot

\* Two String operands under AND, rejected.
C11_Witness ==
    /\ x_pc = "typed"
    /\ x_expr = BinaryOperation(Identifier("name"), "And", Value(String(<<97>>)))
    /\ x_type = CannotApplyBinary(Identifier("name"), "And", Value(String(<<97>>)))

-----------------------------------------------------------------------------
(* What the analyzer's claims speak of.                                    *)

\* The value an expression built from integer literals, unary + and -,
\* parentheses and binary + and - evaluates to.
RECURSIVE resolve_expression(_)
resolve_expression(expr) ==
    CASE expr.node = "Value" -> expr.value.num
      [] expr.node = "Nested" -> resolve_expression(expr.expr)
      [] expr.node = "UnaryOperation" ->
            IF expr.operator = "Minus" THEN I128WrappingNeg(resolve_expression(expr.expr))
            ELSE resolve_expression(expr.expr)
      [] expr.node = "BinaryOperation" ->
            IF expr.operator = "Plus"
            THEN I128Add(resolve_expression(expr.left), resolve_expression(expr.right))
            ELSE I128Sub(resolve_expression(expr.left), resolve_expression(expr.right))

RECURSIVE IsLiteralArithmetic(_)
IsLiteralArithmetic(expr) ==
    CASE expr.node = "Value" -> expr.value.tag = "Number"
      [] expr.node \in {"Nested", "UnaryOperation"} -> IsLiteralArithmetic(expr.expr)
      [] expr.node = "BinaryOperation" ->
            /\ expr.operator \in {"Plus", "Minus"}
            /\ IsLiteralArithmetic(expr.left)
            /\ IsLiteralArithmetic(expr.right)
      [] OTHER -> FALSE

\* The expression inside any number of parentheses.
RECURSIVE StripNested(_)
StripNested(expr) == IF expr.node = "Nested" THEN StripNested(expr.expr) ELSE expr

\* The (column, expression) pairs an INSERT or UPDATE assigns.
AssignmentsOf(statement, ctx) ==
    IF statement.kind = "Update" THEN statement.columns
    ELSE LET columns == insert_columns(ctx[statement.into], statement.columns)
         IN  [i \in 1..Min(Len(columns), Len(statement.values)) |->
                Assignment(columns[i], statement.values[i])]

TargetOf(statement) ==
    CASE statement.kind = "Insert" -> statement.into
      [] statement.kind = "Update" -> statement.table
      [] statement.kind \in {"Delete", "Select"} -> statement.from
      [] OTHER -> ""

Analyzed == a_pc = "analyzed"
Accepted == Analyzed /\ a_result.ok

DataTypeOf(ctx, table, column) ==
    ctx[table].schema[index_of(ctx[table].schema, column)].data_type

\* C5: in an accepted INSERT or UPDATE, the value an expression assigned to an
\* integer column evaluates to lies in the range of the column's type, for
\* literals, unary minus and plus, parentheses and arithmetic over literals.
C5_AssignedIntegersInRange ==
    (Accepted /\ a_stmt.kind \in {"Insert", "Update"}) =>
        \A i \in DOMAIN AssignmentsOf(a_stmt, a_tables) :
            LET assignment == AssignmentsOf(a_stmt, a_tables)[i]
                data_type == DataTypeOf(a_tables, TargetOf(a_stmt), assignment.identifier)
            IN  (data_type.kind \in IntegerKinds /\ IsLiteralArithmetic(assignment.value))
                    => SerializeAssertion(data_type, resolve_expression(assignment.value))

\* C6: in an accepted INSERT or UPDATE, a string literal assigned to a
\* Varchar(max) column, bare or in parentheses, has at most max characters.
C6_AssignedStringsFit ==
    (Accepted /\ a_stmt.kind \in {"Insert", "Update"}) =>
        \A i \in DOMAIN AssignmentsOf(a_stmt, a_tables) :
            LET assignment == AssignmentsOf(a_stmt, a_tables)[i]
                data_type == DataTypeOf(a_tables, TargetOf(a_stmt), assignment.identifier)
                literal == StripNested(assignment.value)
            IN  (/\ data_type.kind = "Varchar"
                 /\ literal.node = "Value"
                 /\ literal.value.tag = "String")
                    => Len(literal.value.string) <= data_type.max

\* C7: the explicit column list of an accepted INSERT is a permutation of the
\* table's user columns, and there are as many values as columns.
C7_InsertColumnsArePermutation ==
    (Accepted /\ a_stmt.kind = "Insert" /\ a_stmt.columns # <<>>) =>
        LET schema == a_tables[a_stmt.into].schema
            columns == a_stmt.columns
        IN  /\ \A i \in DOMAIN columns : index_of(schema, columns[i]) # 0
            /\ \A i, j \in DOMAIN columns : i # j => columns[i] # columns[j]
            /\ \A i \in DOMAIN columns : columns[i] # ROW_ID_COL
            /\ \A k \in DOMAIN schema :
                  ~(k = 1 /\ schema[k].name = ROW_ID_COL)
                      => \E i \in DOMAIN columns : columns[i] = schema[k].name
            /\ Len(a_stmt.values) = Len(columns)

\* An accepted INSERT into a table with an internal row_id whose column list
\* is not in schema order.
C7_Witness ==
    /\ Accepted /\ a_stmt.kind = "Insert"
    /\ a_stmt.into = "tasks" /\ a_stmt.columns = <<"ok", "id">>

\* C8: an UPDATE whose first failing assignment targets row_id, and an INSERT
\* whose column list names row_id after columns that are known and distinct
\* (the counts matching), is rejected with RowIdAssignment, whether or not the
\* table has an internal row_id column.
C8_RowIdAssignment ==
    (Analyzed /\ a_stmt.kind \in {"Insert", "Update"}
        /\ TargetOf(a_stmt) \in DOMAIN a_tables /\ TargetOf(a_stmt) # MKDB_META) =>
        LET metadata == a_tables[TargetOf(a_stmt)]
        IN  /\ a_stmt.kind = "Update" =>
                \A i \in DOMAIN a_stmt.columns :
                    (/\ a_stmt.columns[i].identifier = ROW_ID_COL
                     /\ \A j \in 1..(i - 1) :
                           analyze_assignment(metadata, a_stmt.columns[j].identifier,
                                              a_stmt.columns[j].value, TRUE).ok)
                        => a_result = RowIdAssignment
            /\ a_stmt.kind = "Insert" =>
                \A i \in DOMAIN a_stmt.columns :
                    (/\ a_stmt.columns[i] = ROW_ID_COL
                     /\ Len(a_stmt.columns) = Len(a_stmt.values)
                     /\ \A j \in 1..(i - 1) :
                           /\ index_of(metadata.schema, a_stmt.columns[j]) # 0
                           /\ \A k \in 1..(j - 1) : a_stmt.columns[k] # a_stmt.columns[j])
                        => a_result = RowIdAssignment

\* The statement inside any number of EXPLAINs.
RECURSIVE Explained(_)
Explained(statement) ==
    IF statement.kind = "Explain" THEN Explained(statement.inner) ELSE statement

\* C9: with mkdb_meta in the catalog, every INSERT, UPDATE and DELETE whose
\* target is mkdb_meta is rejected with MkdbMetaModification, whatever its
\* columns, values and WHERE clause; a SELECT from mkdb_meta is not.
C9_MkdbMetaModification ==
    (Analyzed /\ MKDB_META \in DOMAIN a_tables
        /\ TargetOf(Explained(a_stmt)) = MKDB_META) =>
        IF Explained(a_stmt).kind = "Select" THEN a_result # MkdbMetaModification
        ELSE a_result = MkdbMetaModification

\* An UPDATE of mkdb_meta that assigns to an unknown column and whose WHERE is
\* not a Bool, and is rejected for its target.
C9_Witness ==
    /\ Analyzed /\ a_stmt.kind = "Update" /\ a_stmt.table = MKDB_META
    /\ a_stmt.columns[1].identifier = "zz"
    /\ a_stmt.where = <<BinaryOperation(One, "Plus", One)>>
    /\ a_result = MkdbMetaModification

\* Whether analyze reaches the WHERE clause of the statement: the table is
\* found, may be modified, and the checks made before analyze_where pass.
ReachesWhere(statement, ctx) ==
    /\ statement.kind \in {"Select", "Update", "Delete"}
    /\ TargetOf(statement) \in DOMAIN ctx
    /\ statement.kind \in {"Update", "Delete"} => TargetOf(statement) # MKDB_META
    /\ statement.kind = "Select" =>
            analyze_expressions(ctx[statement.from].schema, statement.columns, 1, TRUE).ok
    /\ statement.kind = "Update" =>
            update_check_assignments(ctx[statement.table], statement.columns, 1).ok

\* C10: the WHERE clause of an accepted SELECT, UPDATE or DELETE is absent or
\* of type Bool; one of type Number or String is rejected with
\* ExpectedType{expected: Bool, found: the WHERE expression}.
C10_WhereIsBool ==
    LET statement == Explained(a_stmt)
    IN  (Analyzed /\ statement.kind \in {"Select", "Update", "Delete"}) =>
            LET schema == SchemaOf(TargetOf(statement))
                type == analyze_expression(schema, NoDataType, statement.where[1])
            IN  /\ (a_result.ok /\ statement.where # <<>>) => type = OkType("Bool")
                /\ (/\ ReachesWhere(statement, a_tables)
                     /\ statement.where # <<>>
                     /\ type.ok /\ type.type \in {"Number", "String"})
                        => a_result = ExpectedType("Bool", statement.where[1])

\* A DELETE whose WHERE is a String column, rejected, and so typed.
C10_Witness ==
    /\ Analyzed /\ a_stmt.kind = "Delete" /\ a_stmt.from = "users"
    /\ a_stmt.where = <<Identifier("name")>>
    /\ a_result = ExpectedType("Bool", Identifier("name"))

\* The columns an INSERT assigns to: the listed ones, or every user column.
AssignedColumns(statement, ctx) ==
    IF statement.columns = <<>> THEN UserColumns(ctx[statement.into].schema)
    ELSE statement.columns

\* What is wrong with the i-th column of the list, if anything.
ColumnFault(schema, columns, i) ==
    IF \A k \in DOMAIN schema : schema[k].name # columns[i]
    THEN InvalidColumn(columns[i])
    ELSE IF \E j \in 1..(i - 1) : columns[j] = columns[i]
    THEN DuplicatedColumn(columns[i])
    ELSE IF columns[i] = ROW_ID_COL THEN RowIdAssignment
    ELSE Ok

\* The first result of the sequence that is an error, Ok when there is none.
FirstFault(results) ==
    IF \E i \in DOMAIN results : ~results[i].ok
    THEN results[CHOOSE i \in DOMAIN results :
                    ~results[i].ok /\ \A j \in 1..(i - 1) : results[j].ok]
    ELSE Ok

HasColumnFault(statement, ctx) ==
    LET columns == AssignedColumns(statement, ctx)
    IN  \E i \in DOMAIN columns :
            ~ColumnFault(ctx[statement.into].schema, columns, i).ok

\* C22: analyze on an INSERT reports the first check that fails, in the order
\* unknown table, target mkdb_meta, count of columns against count of values,
\* per column (unknown, repeated, row_id), fewer columns than the table's user
\* columns, per value the checks of its assignment; so a count mismatch wins
\* over duplicates and missing columns, and MissingColumns is only reported
\* for valid, distinct columns with as many values.
C22_InsertChecksInOrder ==
    (Analyzed /\ a_stmt.kind = "Insert") =>
        LET into == a_stmt.into
        IN  IF into \notin DOMAIN a_tables THEN a_result = InvalidTable(into)
            ELSE IF into = MKDB_META THEN a_result = MkdbMetaModification
            ELSE
            LET schema == a_tables[into].schema
                columns == AssignedColumns(a_stmt, a_tables)
                column_faults == [i \in DOMAIN columns |-> ColumnFault(schema, columns, i)]
            IN  /\ IF Len(columns) # Len(a_stmt.values)
                   THEN a_result = ColumnValueCountMismatch
                   ELSE IF ~FirstFault(column_faults).ok
                   THEN a_result = FirstFault(column_faults)
                   ELSE IF Len(columns) < Len(UserColumns(schema))
                   THEN a_result = MissingColumns
                   ELSE a_result =
                           FirstFault([i \in DOMAIN columns |->
                                          analyze_assignment(a_tables[into], columns[i],
                                                             a_stmt.values[i], FALSE)])
                /\ a_result = MissingColumns =>
                        /\ Len(columns) = Len(a_stmt.values)
                        /\ ~HasColumnFault(a_stmt, a_tables)

\* A list that repeats a column and misses another, with one value too many.
C22_Witness ==
    /\ Analyzed /\ a_stmt.kind = "Insert" /\ a_stmt.into = "tasks"
    /\ a_stmt.columns = <<"id", "id">> /\ Len(a_stmt.values) = 3
    /\ a_result = ColumnValueCountMismatch

\* An integer literal under unary operators and parentheses only.
RECURSIVE IsSignedLiteral(_)
IsSignedLiteral(expr) ==
    CASE expr.node = "Value" -> expr.value.tag = "Number"
      [] expr.node \in {"Nested", "UnaryOperation"} -> IsSignedLiteral(expr.expr)
      [] OTHER -> FALSE

RECURSIVE HasUnaryMinus(_)
HasUnaryMinus(expr) ==
    CASE expr.node = "UnaryOperation" ->
            expr.operator = "Minus" \/ HasUnaryMinus(expr.expr)
      [] expr.node = "Nested" -> HasUnaryMinus(expr.expr)
      [] OTHER -> FALSE

\* -N, -(N), - -N, +(-N) and the like.
IsNegatedLiteral(expr) == IsSignedLiteral(expr) /\ HasUnaryMinus(expr)

\* C23: when an INSERT that names every user column once assigns a negated
\* integer literal, however it is written, to an integer column, and the
\* other values are plain values of their columns' types, analyze accepts the
\* statement exactly when the negated value is in the range of the column's
\* type and otherwise returns IntegerOutOfRange(negated value, type).
C23_NegatedLiteralsRangeChecked ==
    (/\ Analyzed /\ a_stmt.kind = "Insert"
     /\ a_stmt.into \in DOMAIN a_tables \ {MKDB_META}
     /\ a_stmt.columns \in FullColumnLists(SchemaOf(a_stmt.into))
     /\ Len(a_stmt.values) = Len(UserColumns(SchemaOf(a_stmt.into)))) =>
        LET schema == SchemaOf(a_stmt.into)
            assignments == AssignmentsOf(a_stmt, a_tables)
        IN  \A i \in DOMAIN assignments :
                LET data_type == DataTypeOf(a_tables, a_stmt.into,
                                            assignments[i].identifier)
                    negated == resolve_expression(assignments[i].value)
                IN  (/\ data_type.kind \in IntegerKinds
                     /\ IsNegatedLiteral(assignments[i].value)
                     /\ \A j \in DOMAIN assignments \ {i} :
                            assignments[j].value =
                                SimpleValueFor(schema, assignments[j].identifier)) =>
                        a_result = IF integer_is_within_range(negated, data_type)
                                   THEN Ok
                                   ELSE IntegerOutOfRange(negated, data_type)

-----------------------------------------------------------------------------
(* sql/statement.rs: Display.  Text is a TLA+ string.                      *)

\* One step of the division of a big-endian number by ten: the quotient's
\* bytes and the remainder.
RECURSIVE DivMod10(_, _, _, _)
DivMod10(bytes, i, quotient, remainder) ==
    IF i > Len(bytes) THEN [quotient |-> quotient, remainder |-> remainder]
    ELSE LET current == remainder * 256 + bytes[i]
         IN  DivMod10(bytes, i + 1, Append(quotient, current \div 10), current % 10)

DecimalDigits == <<"0", "1", "2", "3", "4", "5", "6", "7", "8", "9">>

\* The decimal digits of an unsigned big-endian number.
RECURSIVE UnsignedToString(_)
UnsignedToString(bytes) ==
    LET step == DivMod10(bytes, 1, <<>>, 0)
        digit == DecimalDigits[step.remainder + 1]
    IN  IF \A i \in DOMAIN step.quotient : step.quotient[i] = 0 THEN digit
        ELSE UnsignedToString(step.quotient) \o digit

\* Display for i128
i128_to_string(num) ==
    IF I128IsNegative(num) THEN "-" \o UnsignedToString(I128WrappingNeg(num))
    ELSE UnsignedToString(num)

\* The ASCII letters, lower and upper case in the same order.
LowerCase ==
    <<"a", "b", "c", "d", "e", "f", "g", "h", "i", "j", "k", "l", "m", "n", "o", "p", "q", "r", "s", "t", "u", "v", "w", "x", "y", "z">>
UpperCase ==
    <<"A", "B", "C", "D", "E", "F", "G", "H", "I", "J", "K", "L", "M", "N", "O", "P", "Q", "R", "S", "T", "U", "V", "W", "X", "Y", "Z">>

\* The printable ASCII chars from the space (32) to the underscore (95) and
\* from a (97) to the tilde (126).
AsciiFromSpace ==
    <<" ", "!", "\"", "#", "$", "%", "&", "'", "(", ")", "*", "+", ",", "-", ".", "/",
      "0", "1", "2", "3", "4", "5", "6", "7", "8", "9", ":", ";", "<", "=", ">", "?",
      "@", "A", "B", "C", "D", "E", "F", "G", "H", "I", "J", "K", "L", "M", "N", "O",
      "P", "Q", "R", "S", "T", "U", "V", "W", "X", "Y", "Z", "[", "\\", "]", "^", "_">>
AsciiFromLowerA ==
    <<"a", "b", "c", "d", "e", "f", "g", "h", "i", "j", "k", "l", "m", "n", "o",
      "p", "q", "r", "s", "t", "u", "v", "w", "x", "y", "z", "{", "|", "}", "~">>

\* The char of a code point, for the printable ASCII the strings of the model
\* are written in.
char_from_u32(cp) ==
    CASE cp \in 32..95 -> AsciiFromSpace[cp - 31]
      [] cp \in 97..126 -> AsciiFromLowerA[cp - 96]

RECURSIVE string_to_text(_)
string_to_text(string) ==
    IF string = <<>> THEN ""
    ELSE char_from_u32(Head(string)) \o string_to_text(Tail(string))

\* Display for Value
value_to_string(value) ==
    CASE value.tag = "Number" -> i128_to_string(value.num)
      [] value.tag = "String" -> "\"" \o string_to_text(value.string) \o "\""
      [] value.tag = "Bool" -> IF value.bool THEN "TRUE" ELSE "FALSE"

\* Display for BinaryOperator
binary_operator_to_string(operator) ==
    CASE operator = "Eq" -> "="
      [] operator = "Neq" -> "!="
      [] operator = "Lt" -> "<"
      [] operator = "LtEq" -> "<="
      [] operator = "Gt" -> ">"
      [] operator = "GtEq" -> ">="
      [] operator = "Plus" -> "+"
      [] operator = "Minus" -> "-"
      [] operator = "Mul" -> "*"
      [] operator = "Div" -> "/"
      [] operator = "And" -> "AND"
      [] operator = "Or" -> "OR"

\* Display for UnaryOperator
unary_operator_to_string(operator) == IF operator = "Minus" THEN "-" ELSE "+"

\* Display for Expression
RECURSIVE expression_to_string(_)
expression_to_string(expr) ==
    CASE expr.node = "Identifier" -> expr.ident
      [] expr.node = "Value" -> value_to_string(expr.value)
      [] expr.node = "Wildcard" -> "*"
      [] expr.node = "BinaryOperation" ->
            expression_to_string(expr.left) \o " "
                \o binary_operator_to_string(expr.operator) \o " "
                \o expression_to_string(expr.right)
      [] expr.node = "UnaryOperation" ->
            unary_operator_to_string(expr.operator) \o expression_to_string(expr.expr)
      [] expr.node = "Nested" -> "(" \o expression_to_string(expr.expr) \o ")"

\* Display for usize
RECURSIVE usize_to_string(_)
usize_to_string(n) ==
    IF n < 10 THEN DecimalDigits[n + 1]
    ELSE usize_to_string(n \div 10) \o DecimalDigits[(n % 10) + 1]

\* Display for DataType
data_type_to_string(data_type) ==
    CASE data_type.kind = "Int" -> "INT"
      [] data_type.kind = "UnsignedInt" -> "INT UNSIGNED"
      [] data_type.kind = "BigInt" -> "BIGINT"
      [] data_type.kind = "UnsignedBigInt" -> "BIGINT UNSIGNED"
      [] data_type.kind = "Bool" -> "BOOL"
      [] data_type.kind = "Varchar" -> "VARCHAR(" \o usize_to_string(data_type.max) \o ")"

\* Display for Column: the loop over the constraints.
RECURSIVE constraints_to_string(_, _)
constraints_to_string(constraints, i) ==
    IF i > Len(constraints) THEN ""
    ELSE " " \o (IF constraints[i] = PrimaryKey THEN "PRIMARY KEY" ELSE "UNIQUE")
             \o constraints_to_string(constraints, i + 1)

\* Display for Column
column_to_string(column) ==
    column.name \o " " \o data_type_to_string(column.data_type)
        \o constraints_to_string(column.constraints, 1)

\* Display for Assignment
assignment_to_string(assignment) ==
    assignment.identifier \o " = " \o expression_to_string(assignment.value)

\* statement::join, over the values already displayed.
RECURSIVE join(_, _)
join(values, separator) ==
    IF values = <<>> THEN ""
    ELSE IF Len(values) = 1 THEN values[1]
    ELSE values[1] \o separator \o join(Tail(values), separator)

where_to_string(where) ==
    IF where = <<>> THEN "" ELSE " WHERE " \o expression_to_string(where[1])

\* Display for Statement
RECURSIVE statement_to_string(_)
statement_to_string(statement) ==
    (CASE statement.kind = "CreateTable" ->
            "CREATE TABLE " \o statement.name \o " ("
                \o join([i \in DOMAIN statement.columns |->
                            column_to_string(statement.columns[i])], ", ")
                \o ")"
       [] statement.kind = "CreateDatabase" -> "CREATE DATABASE " \o statement.name
       [] statement.kind = "CreateIndex" ->
            "CREATE" \o (IF statement.unique THEN " UNIQUE " ELSE " ") \o "INDEX "
                \o statement.name \o " ON " \o statement.table
                \o "(" \o statement.column \o ")"
       [] statement.kind = "Select" ->
            "SELECT "
                \o join([i \in DOMAIN statement.columns |->
                            expression_to_string(statement.columns[i])], ", ")
                \o " FROM " \o statement.from
                \o where_to_string(statement.where)
                \o (IF statement.order_by # <<>>
                    THEN " ORDER BY "
                            \o join([i \in DOMAIN statement.order_by |->
                                        expression_to_string(statement.order_by[i])], ", ")
                    ELSE "")
       [] statement.kind = "Delete" ->
            "DELETE FROM " \o statement.from \o where_to_string(statement.where)
       [] statement.kind = "Update" ->
            "UPDATE " \o statement.table \o " SET "
                \o join([i \in DOMAIN statement.columns |->
                            assignment_to_string(statement.columns[i])], ", ")
                \o where_to_string(statement.where)
       [] statement.kind = "Insert" ->
            "INSERT INTO " \o statement.into
                \o (IF statement.columns = <<>> THEN " "
                    ELSE " (" \o join(statement.columns, ", ") \o ") ")
                \o "VALUES ("
                \o join([i \in DOMAIN statement.values |->
                            expression_to_string(statement.values[i])], ", ")
                \o ")"
       [] statement.kind = "DropTable" -> "DROP TABLE " \o statement.name
       [] statement.kind = "DropDatabase" -> "DROP DATABASE " \o statement.name
       [] statement.kind = "StartTransaction" -> "START TRANSACTION"
       [] statement.kind = "Commit" -> "COMMIT"
       [] statement.kind = "Rollback" -> "ROLLBACK"
       [] statement.kind = "Explain" -> "EXPLAIN " \o statement_to_string(statement.inner))
        \o ";"

-----------------------------------------------------------------------------
(* query/planner.rs                                                        *)

\* vm::plan::Plan
SeqScan(table, cursor) == [node |-> "SeqScan", table |-> table, cursor |-> cursor]
ExactMatch(relation, key, emit_table_key_only) ==
    [node |-> "ExactMatch", relation |-> relation, key |-> key,
     emit_table_key_only |-> emit_table_key_only]
RangeScan(relation, range, emit_table_key_only) ==
    [node |-> "RangeScan", relation |-> relation, range |-> range,
     emit_table_key_only |-> emit_table_key_only]
LogicalOrScan(scans) == [node |-> "LogicalOrScan", scans |-> scans]
KeyScan(table, source) == [node |-> "KeyScan", table |-> table, source |-> source]
Collect(source, schema) == [node |-> "Collect", source |-> source, schema |-> schema]
Filter(filter, source) == [node |-> "Filter", filter |-> filter, source |-> source]
PlanUpdate(table, assignments, source) ==
    [node |-> "Update", table |-> table, assignments |-> assignments, source |-> source]
PlanDelete(table, source) == [node |-> "Delete", table |-> table, source |-> source]
Values(values) == [node |-> "Values", values |-> values]
PlanInsert(table, source) == [node |-> "Insert", table |-> table, source |-> source]
SortKeysGen(source, schema, gen_exprs) ==
    [node |-> "SortKeysGen", source |-> source, schema |-> schema, gen_exprs |-> gen_exprs]
TuplesComparator(schema, sort_schema, sort_keys_indexes) ==
    [schema |-> schema, sort_schema |-> sort_schema,
     sort_keys_indexes |-> sort_keys_indexes]
SortConfig(collection, comparator) ==
    [node |-> "Sort", source |-> collection, comparator |-> comparator]
Project(input_schema, output_schema, projection, source) ==
    [node |-> "Project", input_schema |-> input_schema, output_schema |-> output_schema,
     projection |-> projection, source |-> source]

\* storage::Cursor::new
Cursor(page, slot) == [page |-> page, slot |-> slot]

\* vm::plan::Relation
RelationTable(table) == [relation |-> "Table", name |-> table]
RelationIndex(index) == [relation |-> "Index", name |-> index]

\* std::ops::Bound
Unbounded == [bound |-> "Unbounded"]
Included(value) == [bound |-> "Included", value |-> value]
Excluded(value) == [bound |-> "Excluded", value |-> value]

\* Schema of the table's key alone, as the tuples of a key-only scan have.
key_only_schema(metadata) ==
    <<metadata.schema[1]>>

-----------------------------------------------------------------------------
(* query/optimizer.rs: the scan selector of section 4.4, as the planner's  *)
(* tests show it.                                                          *)

\* Key serialization uses the tuple codec, restricted to the key's type.
serialize_key(data_type, value) ==
    serialize(<<Column("", data_type, <<>>)>>, <<value>>)

\* A literal the codec refuses for the key's type: the panic of serialize
\* ends the planning of the statement.
serialize_key_panics(data_type, value) == ~serialize_col(data_type, value).ok

serialized_bound_panics(data_type, bound) ==
    bound.bound # "Unbounded" /\ serialize_key_panics(data_type, bound.value)

RECURSIVE StringLt(_, _)
StringLt(a, b) ==
    IF b = <<>> THEN FALSE
    ELSE IF a = <<>> THEN TRUE
    ELSE IF Head(a) # Head(b) THEN Head(a) < Head(b)
    ELSE StringLt(Tail(a), Tail(b))

\* PartialOrd for Value, between values of one type.
value_lt(a, b) ==
    CASE a.tag = "Number" -> I128Lt(a.num, b.num)
      [] a.tag = "String" -> StringLt(a.string, b.string)
      [] a.tag = "Bool" -> ~a.bool /\ b.bool

\* A range of keys; exact when it stands for key = value.
KeyRange(start, end, exact) == [start |-> start, end |-> end, exact |-> exact]

\* tighter_start that takes the inclusive of two bounds on one value.
tighter_start_inclusive(a, b) ==
    CASE a = Unbounded -> b
      [] b = Unbounded -> a
      [] value_lt(a.value, b.value) -> b
      [] value_lt(b.value, a.value) -> a
      [] OTHER -> IF a.bound = "Included" THEN a ELSE b

\* The tighter of two lower bounds.
tighter_start(a, b) ==
    CASE a = Unbounded -> b
      [] b = Unbounded -> a
      [] value_lt(a.value, b.value) -> b
      [] value_lt(b.value, a.value) -> a
      [] OTHER -> IF a.bound = "Excluded" THEN a ELSE b

\* The tighter of two upper bounds.
tighter_end(a, b) ==
    CASE a = Unbounded -> b
      [] b = Unbounded -> a
      [] value_lt(a.value, b.value) -> a
      [] value_lt(b.value, a.value) -> b
      [] OTHER -> IF a.bound = "Excluded" THEN a ELSE b

\* The looser of two lower bounds.
looser_start(a, b) ==
    CASE a = Unbounded -> a
      [] b = Unbounded -> b
      [] value_lt(a.value, b.value) -> a
      [] value_lt(b.value, a.value) -> b
      [] OTHER -> IF a.bound = "Included" THEN a ELSE b

\* The looser of two upper bounds.
looser_end(a, b) ==
    CASE a = Unbounded -> a
      [] b = Unbounded -> b
      [] value_lt(a.value, b.value) -> b
      [] value_lt(b.value, a.value) -> a
      [] OTHER -> IF a.bound = "Included" THEN a ELSE b

\* The bounds cross: no key lies between them.
is_empty_range(start, end) ==
    /\ start # Unbounded /\ end # Unbounded
    /\ \/ value_lt(end.value, start.value)
       \/ start.value = end.value /\ (start.bound = "Excluded" \/ end.bound = "Excluded")

\* Some key lies between two ranges and in neither.
is_gap(start, end) ==
    /\ start # Unbounded /\ end # Unbounded
    /\ \/ value_lt(end.value, start.value)
       \/ start.value = end.value /\ start.bound = "Excluded" /\ end.bound = "Excluded"

range_intersection(a, b) ==
    KeyRange(tighter_start(a.start, b.start), tighter_end(a.end, b.end),
             a.exact \/ b.exact)

\* The ranges of a conjunction: the non-empty intersections.
ranges_intersection(left, right) ==
    {range \in {range_intersection(a, b) : a \in left, b \in right} :
        ~is_empty_range(range.start, range.end)}

overlaps(a, b) ==
    ~is_gap(tighter_start(a.start, b.start), tighter_end(a.end, b.end))

\* The ranges of a disjunction: overlapping ranges are merged.
RECURSIVE range_union(_)
range_union(ranges) ==
    IF \E a, b \in ranges : a # b /\ overlaps(a, b)
    THEN LET pair == CHOOSE pair \in ranges \X ranges :
                        pair[1] # pair[2] /\ overlaps(pair[1], pair[2])
             merged == KeyRange(looser_start(pair[1].start, pair[2].start),
                                looser_end(pair[1].end, pair[2].end), FALSE)
         IN  range_union((ranges \ {pair[1], pair[2]}) \cup {merged})
    ELSE ranges

is_fully_unbounded(range) == range.start = Unbounded /\ range.end = Unbounded

\* Lower bounds of disjoint ranges, in the order of the keys.
start_lt(a, b) ==
    CASE a = Unbounded -> b # Unbounded
      [] b = Unbounded -> FALSE
      [] OTHER -> \/ value_lt(a.value, b.value)
                  \/ a.value = b.value /\ a.bound = "Included" /\ b.bound = "Excluded"

\* sorted_ranges with the ranges in descending order.
RECURSIVE sorted_ranges_descending(_)
sorted_ranges_descending(ranges) ==
    IF ranges = {} THEN <<>>
    ELSE LET last == CHOOSE range \in ranges :
                        \A other \in ranges \ {range} : start_lt(other.start, range.start)
         IN  <<last>> \o sorted_ranges_descending(ranges \ {last})

\* The ranges of one key column, in ascending order.
RECURSIVE sorted_ranges(_)
sorted_ranges(ranges) ==
    IF ranges = {} THEN <<>>
    ELSE LET first == CHOOSE range \in ranges :
                        \A other \in ranges \ {range} : start_lt(range.start, other.start)
         IN  <<first>> \o sorted_ranges(ranges \ {first})

\* The key columns: the table's key, which is its first column, and the
\* columns with a UNIQUE index.
is_key_column(schema, name) ==
    LET index == index_of(schema, name)
    IN  index # 0 /\ (index = 1 \/ Contains(schema[index].constraints, Unique))

IndexableOperators == {"Eq", "Lt", "LtEq", "Gt", "GtEq"}

\* The operator of literal op column, written as column op literal.
flipped(operator) ==
    CASE operator = "Lt" -> "Gt"
      [] operator = "LtEq" -> "GtEq"
      [] operator = "Gt" -> "Lt"
      [] operator = "GtEq" -> "LtEq"
      [] OTHER -> operator

atom_range(operator, value) ==
    CASE operator = "Eq" -> KeyRange(Included(value), Included(value), TRUE)
      [] operator = "Lt" -> KeyRange(Unbounded, Excluded(value), FALSE)
      [] operator = "LtEq" -> KeyRange(Unbounded, Included(value), FALSE)
      [] operator = "Gt" -> KeyRange(Excluded(value), Unbounded, FALSE)
      [] operator = "GtEq" -> KeyRange(Included(value), Unbounded, FALSE)

\* An indexable atom: a comparison of a key column with a literal.
is_indexable_atom(schema, expr) ==
    /\ expr.node = "BinaryOperation"
    /\ expr.operator \in IndexableOperators
    /\ \/ /\ expr.left.node = "Identifier" /\ expr.right.node = "Value"
          /\ is_key_column(schema, expr.left.ident)
       \/ /\ expr.left.node = "Value" /\ expr.right.node = "Identifier"
          /\ is_key_column(schema, expr.right.ident)

\* What a predicate gives the selector: ranges by key column, nothing, or
\* the fall back to the sequential scan.
IndexPaths(ranges) == [status |-> "indexed", ranges |-> ranges]
NoIndexPaths == [status |-> "none"]
FallBack == [status |-> "fallback"]

atom_paths(expr) ==
    IF expr.left.node = "Identifier"
    THEN IndexPaths(expr.left.ident :> {atom_range(expr.operator, expr.right.value)})
    ELSE IndexPaths(expr.right.ident
                        :> {atom_range(flipped(expr.operator), expr.left.value)})

\* Conjunction: the ranges of a column both sides bound are intersected; an
\* empty intersection falls back.
and_paths(left, right) ==
    IF left.status = "fallback" \/ right.status = "fallback" THEN FallBack
    ELSE IF left.status = "none" THEN right
    ELSE IF right.status = "none" THEN left
    ELSE LET ranges ==
                [col \in DOMAIN left.ranges \cup DOMAIN right.ranges |->
                    IF col \notin DOMAIN right.ranges THEN left.ranges[col]
                    ELSE IF col \notin DOMAIN left.ranges THEN right.ranges[col]
                    ELSE ranges_intersection(left.ranges[col], right.ranges[col])]
         IN  IF \E col \in DOMAIN ranges : ranges[col] = {} THEN FallBack
             ELSE IndexPaths(ranges)

\* or_paths that keeps a union covering every key.
or_paths_keeping_unbounded(left, right) ==
    IF left.status = "fallback" \/ right.status = "fallback" THEN FallBack
    ELSE IF left.status = "none" \/ right.status = "none" THEN NoIndexPaths
    ELSE IndexPaths(
            [col \in DOMAIN left.ranges \cup DOMAIN right.ranges |->
                IF col \notin DOMAIN right.ranges THEN left.ranges[col]
                ELSE IF col \notin DOMAIN left.ranges THEN right.ranges[col]
                ELSE range_union(left.ranges[col] \cup right.ranges[col])])

\* Disjunction: the ranges of each column are united; a union that covers
\* every key falls back, and so does a side no index serves.
or_paths(left, right) ==
    IF left.status = "fallback" \/ right.status = "fallback" THEN FallBack
    ELSE IF left.status = "none" \/ right.status = "none" THEN NoIndexPaths
    ELSE LET ranges ==
                [col \in DOMAIN left.ranges \cup DOMAIN right.ranges |->
                    IF col \notin DOMAIN right.ranges THEN left.ranges[col]
                    ELSE IF col \notin DOMAIN left.ranges THEN right.ranges[col]
                    ELSE range_union(left.ranges[col] \cup right.ranges[col])]
         IN  IF \E col \in DOMAIN ranges :
                    \E range \in ranges[col] : is_fully_unbounded(range)
             THEN FallBack
             ELSE IndexPaths(ranges)

RECURSIVE find_index_paths(_, _)
find_index_paths(schema, expr) ==
    IF expr.node = "Nested" THEN find_index_paths(schema, expr.expr)
    ELSE IF is_indexable_atom(schema, expr) THEN atom_paths(expr)
    ELSE IF expr.node = "BinaryOperation" /\ expr.operator = "And"
    THEN and_paths(find_index_paths(schema, expr.left),
                   find_index_paths(schema, expr.right))
    ELSE IF expr.node = "BinaryOperation" /\ expr.operator = "Or"
    THEN or_paths(find_index_paths(schema, expr.left),
                  find_index_paths(schema, expr.right))
    ELSE NoIndexPaths

\* Every leaf of the predicate is an indexable atom.
RECURSIVE is_fully_indexable(_, _)
is_fully_indexable(schema, expr) ==
    IF expr.node = "Nested" THEN is_fully_indexable(schema, expr.expr)
    ELSE IF is_indexable_atom(schema, expr) THEN TRUE
    ELSE IF expr.node = "BinaryOperation" /\ expr.operator \in {"And", "Or"}
    THEN /\ is_fully_indexable(schema, expr.left)
         /\ is_fully_indexable(schema, expr.right)
    ELSE FALSE

\* residual that keeps the whole predicate.
residual_whole(schema, expr) == <<expr>>

\* What is left of a conjunction once the bounds of the scan have absorbed
\* its indexable conjuncts: nothing, or one expression.
RECURSIVE residual(_, _)
residual(schema, expr) ==
    IF expr.node = "BinaryOperation" /\ expr.operator = "And"
    THEN LET left == residual(schema, expr.left)
             right == residual(schema, expr.right)
         IN  IF left = <<>> THEN right
             ELSE IF right = <<>> THEN left
             ELSE <<BinaryOperation(left[1], "And", right[1])>>
    ELSE IF is_fully_indexable(schema, expr) THEN <<>>
    ELSE <<expr>>

index_name(table, column) == table \o "_" \o column \o "_uq_index"

serialized_bound(data_type, bound) ==
    IF bound = Unbounded THEN Unbounded
    ELSE [bound |-> bound.bound, value |-> serialize_key(data_type, bound.value)]

\* The scan of one range of a key column.
range_scan_plan(table, schema, col, range, emit_table_key_only) ==
    LET index == index_of(schema, col)
        data_type == schema[index].data_type
        relation == IF index = 1 THEN RelationTable(table)
                    ELSE RelationIndex(index_name(table, col))
    IN  IF serialized_bound_panics(data_type, range.start)
        THEN serialize_key(data_type, range.start.value)
        ELSE IF serialized_bound_panics(data_type, range.end)
        THEN serialize_key(data_type, range.end.value)
        ELSE IF range.exact
        THEN ExactMatch(relation, serialize_key(data_type, range.start.value),
                        emit_table_key_only)
        ELSE RangeScan(relation,
                       <<serialized_bound(data_type, range.start),
                         serialized_bound(data_type, range.end)>>,
                       emit_table_key_only)

\* The queues the ranges of the key columns can be scanned in.  The ranges
\* of one column are queued in ascending order; how the ranges of different
\* columns follow one another is settled by no source at hand, so every
\* interleaving of the columns is a queue.
RECURSIVE range_queues(_)
range_queues(sorted) ==
    LET left == {col \in DOMAIN sorted : sorted[col] # <<>>}
    IN  IF left = {} THEN {<<>>}
        ELSE UNION {{<<[col |-> col, range |-> Head(sorted[col])]>> \o rest :
                        rest \in range_queues([sorted EXCEPT ![col] = Tail(sorted[col])])} :
                    col \in left}

\* The queues of the ranges a predicate bounds the key columns with; the
\* empty queue when no index serves it.
scan_queues(table, where, db) ==
    IF table \notin DOMAIN db \/ where = <<>> THEN {<<>>}
    ELSE LET paths == find_index_paths(db[table].schema, where[1])
         IN  IF paths.status # "indexed" THEN {<<>>}
             ELSE range_queues([col \in DOMAIN paths.ranges |->
                                    sorted_ranges(paths.ranges[col])])

\* The scans of the queued ranges.
range_scan_plans(table, schema, queue, emit_table_key_only) ==
    [j \in DOMAIN queue |->
        range_scan_plan(table, schema, queue[j].col, queue[j].range,
                        emit_table_key_only)]

\* The keys of an index scan are sorted before the table is looked up.
key_scan_plan(table, metadata, source) ==
    LET key_only == key_only_schema(metadata)
    IN  KeyScan(table,
                SortConfig(Collect(source, key_only),
                           TuplesComparator(key_only, key_only, <<0>>)))

\* generate_scan_plan with the ranges of the predicate queued as queue, one
\* of scan_queues(table, where, db).
generate_scan_plan(table, where, db, queue) ==
    LET metadata == db[table]
        schema == metadata.schema
        sequential == SeqScan(table, Cursor(metadata.root, 0))
    IN  IF table \notin DOMAIN db THEN InvalidTable(table)
        ELSE IF where = <<>> THEN sequential
        ELSE LET paths == find_index_paths(schema, where[1])
             IN  IF paths.status # "indexed" THEN Filter(where[1], sequential)
                 ELSE LET scans == range_scan_plans(table, schema, queue, FALSE)
                          key_scans == range_scan_plans(table, schema, queue, TRUE)
                          source ==
                            CASE scans[1].relation.relation = "Table" -> scans[1]
                              [] scans[1].relation.relation = "Index"
                                    /\ scans[1].node = "ExactMatch" ->
                                    KeyScan(table, key_scans[1])
                              [] OTHER -> key_scan_plan(table, metadata, key_scans[1])
                          rest == residual(schema, where[1])
                          panicked == {j \in DOMAIN scans : "panic" \in DOMAIN scans[j]}
                      IN  IF panicked # {}
                          THEN scans[CHOOSE j \in panicked : \A k \in panicked : j <= k]
                          ELSE IF Len(scans) > 1
                          THEN Filter(where[1],
                                      key_scan_plan(table, metadata,
                                                    LogicalOrScan(key_scans)))
                          ELSE IF rest = <<>> THEN source
                          ELSE Filter(rest[1], source)

\* needs_collection reaches its unreachable!() on a plan that is no scan.
RECURSIVE needs_collection_panics(_)
needs_collection_panics(plan) ==
    CASE plan.node = "Filter" -> needs_collection_panics(plan.source)
      [] plan.node \in {"KeyScan", "ExactMatch", "SeqScan", "RangeScan",
                        "LogicalOrScan"} -> FALSE
      [] OTHER -> TRUE

\* needs_collection that does not look through Filter.
needs_collection_top_level(plan) ==
    plan.node \in {"SeqScan", "RangeScan", "LogicalOrScan"}

RECURSIVE needs_collection(_)
needs_collection(plan) ==
    CASE plan.node = "Filter" -> needs_collection(plan.source)
      [] plan.node \in {"KeyScan", "ExactMatch"} -> FALSE
      [] plan.node \in {"SeqScan", "RangeScan", "LogicalOrScan"} -> TRUE
      [] OTHER -> Panic("internal error: entered unreachable code: needs_collection() called with plan that is not a 'scan' plan")

OkPlan(plan) == [ok |-> TRUE, plan |-> plan]

\* Column::new
ColumnNew(name, data_type) == Column(name, data_type, <<>>)

OkDataType(data_type) == [ok |-> TRUE, data_type |-> data_type]

resolve_unknown_type(schema, expr) ==
    IF expr.node = "Identifier"
    THEN IF index_of(schema, expr.ident) = 0 THEN UnwrapNone
         ELSE OkDataType(schema[index_of(schema, expr.ident)].data_type)
    ELSE LET type == analyze_expression(schema, NoDataType, expr)
         IN  IF ~type.ok THEN type
             ELSE CASE type.type = "Bool" -> OkDataType(DtBool)
                    [] type.type = "Number" -> OkDataType(DtBigInt)
                    [] type.type = "String" -> OkDataType(Varchar(65535))

\* needs_sort without the exception for the table's first column.
needs_sort_whenever_ordered(order_by, schema) ==
    order_by # <<>>

\* generate_plan, Statement::Select: whether the sort chain is built.
needs_sort(order_by, schema) ==
    order_by # <<>> /\ order_by # <<Identifier(schema[1].name)>>

\* sort_keys that gives every expression the index of the first appended
\* column.
RECURSIVE sort_keys_one_appended_index(_, _, _, _, _)
sort_keys_one_appended_index(schema, order_by, i, sort_schema, sort_keys_indexes) ==
    IF i > Len(order_by)
    THEN [ok |-> TRUE, sort_schema |-> sort_schema,
          sort_keys_indexes |-> sort_keys_indexes]
    ELSE LET expr == order_by[i]
         IN  IF expr.node = "Identifier" /\ index_of(schema, expr.ident) = 0
             THEN UnwrapNone
             ELSE IF expr.node = "Identifier"
             THEN sort_keys_one_appended_index(
                        schema, order_by, i + 1, sort_schema,
                        Append(sort_keys_indexes, index_of(schema, expr.ident) - 1))
             ELSE LET index == Len(schema)
                      data_type == resolve_unknown_type(schema, expr)
                  IN  IF ~data_type.ok THEN data_type
                      ELSE sort_keys_one_appended_index(
                                schema, order_by, i + 1,
                                Append(sort_schema,
                                       ColumnNew(expression_to_string(expr),
                                                 data_type.data_type)),
                                Append(sort_keys_indexes, index))

\* generate_plan, Statement::Select: the loop over order_by.  Indexes count
\* from 0, as Vec indexes do.
RECURSIVE sort_keys(_, _, _, _, _)
sort_keys(schema, order_by, i, sort_schema, sort_keys_indexes) ==
    IF i > Len(order_by)
    THEN [ok |-> TRUE, sort_schema |-> sort_schema,
          sort_keys_indexes |-> sort_keys_indexes]
    ELSE LET expr == order_by[i]
         IN  IF expr.node = "Identifier" /\ index_of(schema, expr.ident) = 0
             THEN UnwrapNone
             ELSE IF expr.node = "Identifier"
             THEN sort_keys(schema, order_by, i + 1, sort_schema,
                            Append(sort_keys_indexes, index_of(schema, expr.ident) - 1))
             ELSE LET index == Len(sort_schema)
                      data_type == resolve_unknown_type(schema, expr)
                  IN  IF ~data_type.ok THEN data_type
                      ELSE sort_keys(schema, order_by, i + 1,
                                     Append(sort_schema,
                                            ColumnNew(expression_to_string(expr),
                                                      data_type.data_type)),
                                     Append(sort_keys_indexes, index))

IsNotIdentifier(expr) == expr.node # "Identifier"

\* generate_plan, Statement::Select: the sort chain over the scan.
sort_plan(source, order_by, schema) ==
    LET keys == sort_keys(schema, order_by, 1, schema, <<>>)
        collect_source ==
            IF Len(keys.sort_schema) > Len(schema)
            THEN SortKeysGen(source, schema, SelectSeq(order_by, IsNotIdentifier))
            ELSE source
    IN  IF ~keys.ok THEN keys
        ELSE OkPlan(SortConfig(Collect(collect_source, keys.sort_schema),
                               TuplesComparator(schema, keys.sort_schema,
                                                keys.sort_keys_indexes)))

\* generate_plan, Statement::Select: the loop over columns.
RECURSIVE output_schema_of(_, _, _, _)
output_schema_of(schema, columns, i, output_schema) ==
    IF i > Len(columns) THEN [ok |-> TRUE, schema |-> output_schema]
    ELSE LET expr == columns[i]
         IN  IF expr.node = "Identifier" /\ index_of(schema, expr.ident) = 0
             THEN UnwrapNone
             ELSE IF expr.node = "Identifier"
             THEN output_schema_of(schema, columns, i + 1,
                                   Append(output_schema,
                                          schema[index_of(schema, expr.ident)]))
             ELSE LET data_type == resolve_unknown_type(schema, expr)
                  IN  IF ~data_type.ok THEN data_type
                      ELSE output_schema_of(schema, columns, i + 1,
                                            Append(output_schema,
                                                   Column(expression_to_string(expr),
                                                          data_type.data_type, <<>>)))

\* skips_projection that compares the number of columns only.
skips_projection_by_length(schema, output_schema) ==
    Len(schema) = Len(output_schema)

\* generate_plan, Statement::Select: table.schema == output_schema decides.
skips_projection(schema, output_schema) == schema = output_schema

\* generate_plan, Statement::Select: the plan returned once the sort chain and
\* the output schema are known; either of them may be the error of a `?`.
select_plan(table, columns, sorted, output) ==
    IF ~sorted.ok THEN sorted
    ELSE IF ~output.ok THEN output
    ELSE IF skips_projection(table.schema, output.schema) THEN sorted
    ELSE OkPlan(Project(table.schema, output.schema, columns, sorted.plan))

generate_select(statement, scan, db) ==
    LET found == table_metadata(db, statement.from)
        table == found.metadata
    IN  IF ~found.ok THEN found
        ELSE IF statement.order_by # <<>> /\ table.schema = <<>> THEN OutOfRange
        ELSE select_plan(table, statement.columns,
                         IF needs_sort(statement.order_by, table.schema)
                         THEN sort_plan(scan, statement.order_by, table.schema)
                         ELSE OkPlan(scan),
                         output_schema_of(table.schema, statement.columns, 1, <<>>))

\* generate_plan, given what optimizer::generate_scan_plan returned: a scan,
\* or the error or the panic that ends generate_plan there.
generate_plan(statement, scan, db) ==
    CASE statement.kind = "Insert" ->
            LET found == table_metadata(db, statement.into)
            IN  IF ~found.ok THEN found
                ELSE OkPlan(PlanInsert(statement.into, Values(<<statement.values>>)))
      [] statement.kind \in {"Select", "Update", "Delete"}
            /\ "ok" \in DOMAIN scan -> scan
      [] statement.kind = "Select" -> generate_select(statement, scan, db)
      [] statement.kind = "Update" ->
            LET found == table_metadata(db, statement.table)
                metadata == found.metadata
                source == IF needs_collection(scan)
                          THEN Collect(scan, metadata.schema)
                          ELSE scan
            IN  IF ~found.ok THEN found
                ELSE IF needs_collection_panics(scan) THEN needs_collection(scan)
                ELSE OkPlan(PlanUpdate(statement.table, statement.columns, source))
      [] statement.kind = "Delete" ->
            LET found == table_metadata(db, statement.from)
                metadata == found.metadata
                source == IF needs_collection(scan)
                          THEN Collect(scan, metadata.schema)
                          ELSE scan
            IN  IF ~found.ok THEN found
                ELSE IF needs_collection_panics(scan) THEN needs_collection(scan)
                ELSE OkPlan(PlanDelete(statement.from, source))
      [] OTHER ->
            Other("statement " \o statement_to_string(statement)
                    \o " not yet implemeted or supported")

-----------------------------------------------------------------------------
(* The planner as a state machine: an analyzed statement and the scan      *)
(* chosen for it are planned once.                                         *)

PlannerTables == {"users", "tasks", "big"}

\* The database of the planner's tests: users has a UNIQUE index on email,
\* tasks has no primary key; each table has its root page.
PlannerDb ==
    [t \in PlannerTables |->
        CASE t = "users" ->
                [root |-> 1] @@
                TableMetadata(<<Column("id", DtInt, <<PrimaryKey>>),
                                Column("name", Varchar(2), <<>>),
                                Column("email", Varchar(2), <<Unique>>)>>)
          [] t = "tasks" ->
                [root |-> 2] @@
                TableMetadata(<<RowIdColumn, Column("id", DtUnsignedInt, <<>>),
                                Column("ok", DtBool, <<>>)>>)
          [] t = "big" ->
                [root |-> 3] @@
                TableMetadata(<<Column("id", DtBigInt, <<PrimaryKey>>)>>)]

\* The largest literal a key is compared with.
MaxKey == 3

NumberOf(n) == Value(Number(Pad16(<<n>>)))

IdAtoms ==
    {BinaryOperation(Identifier("id"), operator, NumberOf(n)) :
        operator \in IndexableOperators, n \in 1..MaxKey}

EmailAtoms ==
    {BinaryOperation(Identifier("email"), operator, Value(String(<<char>>))) :
        operator \in IndexableOperators, char \in {97, 98}}

NameIsA == BinaryOperation(Identifier("name"), "Eq", Value(String(<<97>>)))

\* Atoms no index serves, and one with the literal on the left.
OtherAtoms ==
    {NameIsA,
     BinaryOperation(Identifier("id"), "Neq", NumberOf(1)),
     BinaryOperation(NumberOf(2), "Gt", Identifier("id"))}

And(left, right) == BinaryOperation(left, "And", right)
Or(left, right) == BinaryOperation(left, "Or", right)

\* The predicates the scans are chosen for: atoms, conjunctions and
\* disjunctions of two atoms, and the shapes of the planner's tests.
ScanWheres ==
    {<<>>}
        \cup {<<atom>> : atom \in IdAtoms \cup EmailAtoms \cup OtherAtoms}
        \cup {<<And(a, b)>> : a \in IdAtoms, b \in IdAtoms}
        \cup {<<Or(a, b)>> : a \in IdAtoms, b \in IdAtoms}
        \cup {<<And(a, NameIsA)>> : a \in IdAtoms \cup EmailAtoms}
        \cup {<<And(NameIsA, a)>> : a \in IdAtoms}
        \cup {<<Or(a, b)>> : a \in IdAtoms \cup EmailAtoms, b \in EmailAtoms}
        \cup {<<Or(a, b)>> : a \in EmailAtoms, b \in IdAtoms}
        \cup {<<Or(a, NameIsA)>> : a \in IdAtoms}
        \cup {<<Or(Nested(Or(BinaryOperation(Identifier("id"), "Gt", NumberOf(1)),
                              BinaryOperation(Identifier("id"), "Lt", NumberOf(2)))),
                  BinaryOperation(Identifier("id"), "Gt", NumberOf(3)))>>,
              <<And(Nested(Or(BinaryOperation(Identifier("id"), "Lt", NumberOf(1)),
                               BinaryOperation(Identifier("id"), "Gt", NumberOf(3)))),
                   BinaryOperation(Identifier("id"), "Eq", NumberOf(2)))>>,
              <<And(And(BinaryOperation(Identifier("id"), "Lt", NumberOf(3)), NameIsA),
                    BinaryOperation(Identifier("id"), "Gt", NumberOf(1)))>>,
              <<And(BinaryOperation(Identifier("id"), "Lt", NumberOf(2)),
                    Nested(Or(NameIsA,
                              BinaryOperation(Identifier("id"), "Eq", NumberOf(3)))))>>,
              <<Or(Or(Or(Or(Nested(And(BinaryOperation(Identifier("id"), "Gt", NumberOf(2)),
                                       BinaryOperation(Identifier("id"), "LtEq", NumberOf(3)))),
                            BinaryOperation(Identifier("id"), "Eq", NumberOf(1))),
                         BinaryOperation(Identifier("email"), "Lt", Value(String(<<97>>)))),
                      BinaryOperation(Identifier("email"), "Gt", Value(String(<<98>>)))),
                   BinaryOperation(Identifier("email"), "Eq", Value(String(<<97, 98>>))))>>}

\* SELECT * of a table, as sql::pipeline hands it over.
SelectAll(from, where) ==
    LET schema == PlannerDb[from].schema
        names == IF schema[1].name = ROW_ID_COL THEN Tail(column_identifiers(schema))
                 ELSE column_identifiers(schema)
    IN  Select([i \in DOMAIN names |-> Identifier(names[i])], from, where, <<>>)

PlannerScans ==
    {SelectAll(from, where) : from \in PlannerTables, where \in ScanWheres}
        \cup {Delete(from, where) : from \in PlannerTables, where \in ScanWheres}

PlannerWheres ==
    {<<>>,
     <<BinaryOperation(Identifier("id"), "Eq", One)>>,
     <<BinaryOperation(Identifier("id"), "Lt", One)>>,
     <<BinaryOperation(BinaryOperation(Identifier("id"), "Lt", One), "Or",
                       BinaryOperation(Identifier("id"), "Eq", One))>>,
     <<BinaryOperation(Identifier("email"), "Lt", Value(String(<<97>>)))>>}

\* The projections of the SELECTs, as sql::pipeline hands them over: the
\* wildcard is already expanded into the table's columns, row_id left out.
PlannerColumns ==
    {<<Identifier("id")>>,
     <<Identifier("id"), Identifier("name")>>,
     <<Identifier("id"), Identifier("name"), Identifier("email")>>,
     <<Identifier("name"), Identifier("id")>>,
     <<Identifier("id"), Identifier("ok")>>,
     <<Identifier(ROW_ID_COL), Identifier("id"), Identifier("ok")>>,
     <<BinaryOperation(Identifier("id"), "Plus", One)>>,
     <<Identifier("id"), BinaryOperation(Identifier("id"), "Eq", One)>>,
     <<Value(String(<<97>>)), Identifier("id")>>,
     <<Nested(Identifier("id"))>>,
     <<Identifier("id"), Identifier("id")>>}

PlannerOrderBys ==
    {<<>>,
     <<Identifier("id")>>,
     <<Identifier(ROW_ID_COL)>>,
     <<Identifier("name")>>,
     <<Identifier("id"), Identifier("name")>>,
     <<Identifier("id"), Identifier("id")>>,
     <<Nested(Identifier("id"))>>,
     <<BinaryOperation(Identifier("id"), "Plus", One)>>,
     <<Identifier("name"), BinaryOperation(Identifier("id"), "Plus", One),
       BinaryOperation(Identifier("id"), "Mul", One)>>,
     <<BinaryOperation(Identifier("id"), "Plus", One), Identifier("id"),
       BinaryOperation(Identifier("id"), "Plus", One)>>}

PlannerSelects ==
    {Select(columns, from, where, order_by) :
        columns \in PlannerColumns, from \in PlannerTables,
        where \in PlannerWheres, order_by \in PlannerOrderBys}

PlannerMutations ==
    {Delete(from, where) : from \in PlannerTables, where \in PlannerWheres}
        \cup {Update(table, <<Assignment("id", One)>>, where) :
                table \in PlannerTables, where \in PlannerWheres}
        \cup {Insert("users", <<"id", "name">>, <<One, Value(String(<<97>>))>>)}

PlannerExplained ==
    {Select(<<Identifier("id")>>, "big", <<>>, <<>>),
     Select(<<Identifier("id"), Identifier("name")>>, "users", <<>>, <<Identifier("name")>>),
     Delete("users", <<>>),
     Insert("users", <<"id", "name">>, <<One, Value(String(<<97>>))>>)}

PlannerStatements ==
    PlannerSelects \cup PlannerMutations \cup PlannerScans
        \cup {Explain(inner) : inner \in PlannerExplained}

\* The statement whose scan is chosen: the inner one of an EXPLAIN.
ScannedOf(statement) ==
    IF statement.kind = "Explain" THEN statement.inner ELSE statement

NotPlanned == [node |-> "None"]

PlannerInit ==
    /\ a_tables = PlannerDb
    /\ p_stmt \in PlannerStatements
    /\ build \in Builds
    /\ p_scan \in IF ScannedOf(p_stmt).kind = "Insert" THEN {NotPlanned}
                  ELSE {generate_scan_plan(TargetOf(ScannedOf(p_stmt)),
                                           ScannedOf(p_stmt).where, a_tables, queue) :
                            queue \in scan_queues(TargetOf(ScannedOf(p_stmt)),
                                                  ScannedOf(p_stmt).where, a_tables)}
    /\ p_plan = NotPlanned
    /\ t_schema = <<>> /\ t_tuple = <<>> /\ t_buf = <<>> /\ t_out = <<>>
    /\ t_size = 0 /\ t_pc = "idle"
    /\ page_size = 0 /\ block_size = 0 /\ io_vec = <<>> /\ io_pos = 0
    /\ io_last = <<>> /\ io_op = "idle" /\ io_page = 0 /\ io_buf = <<>> /\ io_ret = [ok |-> TRUE]
    /\ io_len = 0
    /\ a_stmt = p_stmt /\ a_result = analyze(p_stmt, PlannerDb) /\ a_pc = "analyzed"
    /\ a_meta = <<>>
    /\ x_schema = <<>> /\ x_col = [kind |-> "None"] /\ x_expr = [node |-> "None"]
    /\ x_type = [ok |-> TRUE] /\ x_pc = "idle"
    /\ k_stream = <<>> /\ k_reached_eof = FALSE /\ k_items = <<>> /\ k_result = <<>>

GeneratePlan ==
    /\ p_plan = NotPlanned
    /\ a_result.ok
    /\ p_plan' = generate_plan(p_stmt, p_scan, a_tables)
    /\ UNCHANGED <<p_stmt, p_scan>>
    /\ UNCHANGED <<tupleVars, ioVars, analyzerVars, typingVars, tokenizerVars, build>>

PlannerNext == GeneratePlan

SpecPlanner == PlannerInit /\ [][PlannerNext]_vars

RECURSIVE ScanBehindFilters(_)
ScanBehindFilters(plan) ==
    IF plan.node = "Filter" THEN ScanBehindFilters(plan.source) ELSE plan

Planned == p_plan # NotPlanned /\ p_plan.ok

\* C4: the child of a planned Update or Delete is a Collect over the chosen
\* scan exactly when the scan behind its Filters is a SeqScan, RangeScan or
\* LogicalOrScan, and is the chosen scan itself when that is an ExactMatch or
\* a KeyScan; so none of the three is pulled from directly or through Filters.
C4_CollectBeforeMutation ==
    (Planned /\ p_plan.plan.node \in {"Update", "Delete"}) =>
        LET child == p_plan.plan.source
            cursor_scans == {"SeqScan", "RangeScan", "LogicalOrScan"}
        IN  /\ child.node = "Collect" <=> ScanBehindFilters(p_scan).node \in cursor_scans
            /\ ScanBehindFilters(p_scan).node \in {"ExactMatch", "KeyScan"} => child = p_scan
            /\ child.node = "Collect" => child.source = p_scan
            /\ ScanBehindFilters(child).node \notin cursor_scans

\* A Delete planned over a RangeScan behind a Filter, collected.
C4_Witness ==
    /\ Planned /\ p_plan.plan.node = "Delete"
    /\ p_scan.node = "Filter"
    /\ ScanBehindFilters(p_scan).node = "RangeScan"
    /\ p_plan.plan.source.node = "Collect"

\* The plan under the Project of a planned SELECT, or the plan itself.
Projected(plan) == IF plan.node = "Project" THEN plan.source ELSE plan

\* The scan a sort chain reads: the source of its Collect, or of the
\* SortKeysGen under it.
SortedScan(sort) ==
    IF sort.source.source.node = "SortKeysGen" THEN sort.source.source.source
    ELSE sort.source.source

PlannedSelect == Planned /\ p_stmt.kind = "Select"

\* The plan holds a Sort somewhere.
RECURSIVE HasSort(_)
HasSort(plan) ==
    \/ plan.node = "Sort"
    \/ "source" \in DOMAIN plan /\ HasSort(plan.source)

\* The Sorts of a plan from its top down to its scan.
RECURSIVE SortCount(_)
SortCount(plan) ==
    (IF plan.node = "Sort" THEN 1 ELSE 0)
        + (IF "source" \in DOMAIN plan THEN SortCount(plan.source) ELSE 0)

\* order_by is not empty and is not the identifier of the first column alone.
Ordered ==
    /\ p_stmt.order_by # <<>>
    /\ p_stmt.order_by # <<Identifier(a_tables[p_stmt.from].schema[1].name)>>

\* C13 as stated: the plan of a SELECT contains a Sort exactly when order_by
\* is not empty and is not the identifier of the table's first column alone;
\* otherwise the plan under the projection is the scan plan, without a
\* Sort, Collect or SortKeysGen.
C13_SortExactlyWhenOrdered ==
    PlannedSelect =>
        /\ HasSort(p_plan.plan) <=> Ordered
        /\ ~Ordered => Projected(p_plan.plan) = p_scan

\* C13, amended: generate_plan puts a Sort over a Collect over the scan
\* plan, through a SortKeysGen or not, exactly when order_by is not empty
\* and is not the identifier of the table's first column alone, and the
\* plan then holds one Sort more than the scan plan; otherwise the plan
\* under the projection is the scan plan as it is, with no Sort, Collect or
\* SortKeysGen added.  The scan plan holds a Sort of its own when it is a
\* KeyScan over the sorted keys of an index, so a plan without ORDER BY can
\* contain a Sort.
C13_SortAddedExactlyWhenOrdered ==
    PlannedSelect =>
        LET plan == Projected(p_plan.plan)
        IN  /\ plan.node = "Sort" <=> Ordered
            /\ Ordered => /\ plan.source.node = "Collect"
                          /\ SortedScan(plan) = p_scan
                          /\ SortCount(p_plan.plan) = SortCount(p_scan) + 1
            /\ ~Ordered => /\ plan = p_scan
                           /\ SortCount(p_plan.plan) = SortCount(p_scan)

\* SELECT * FROM users WHERE email < 'a' without ORDER BY, planned as its
\* scan plan, a KeyScan over the sorted keys of the index.
C13_Witness ==
    /\ PlannedSelect /\ p_stmt.from = "users" /\ p_stmt.order_by = <<>>
    /\ p_stmt.where = <<BinaryOperation(Identifier("email"), "Lt", Value(String(<<97>>)))>>
    /\ p_scan.node = "KeyScan" /\ p_scan.source.node = "Sort"
    /\ p_plan.plan = p_scan

\* How many of the expressions before the i-th are not identifiers.
GeneralBefore(order_by, i) ==
    Cardinality({j \in 1..(i - 1) : order_by[j].node # "Identifier"})

\* C14: in a sort chain sort_keys_indexes has one index (from 0) for each
\* order_by expression: that of the column in the table schema for an
\* identifier, len(schema) + k for the k-th expression that is not one, where
\* sort_schema has the column appended for it; a SortKeysGen sits between the
\* scan and the Collect exactly when some expression is not an identifier
\* and generates these expressions in order; every index is within
\* sort_schema.
C14_SortKeysIndexes ==
    (PlannedSelect /\ Projected(p_plan.plan).node = "Sort") =>
        LET sort == Projected(p_plan.plan)
            schema == a_tables[p_stmt.from].schema
            order_by == p_stmt.order_by
            indexes == sort.comparator.sort_keys_indexes
            sort_schema == sort.comparator.sort_schema
            general == {i \in DOMAIN order_by : order_by[i].node # "Identifier"}
            gen == sort.source.source
        IN  /\ Len(indexes) = Len(order_by)
            /\ \A i \in DOMAIN order_by :
                    /\ i \notin general =>
                            /\ indexes[i] + 1 \in DOMAIN schema
                            /\ schema[indexes[i] + 1].name = order_by[i].ident
                    /\ i \in general =>
                            /\ indexes[i] = Len(schema) + GeneralBefore(order_by, i)
                            /\ sort_schema[indexes[i] + 1].name
                                    = expression_to_string(order_by[i])
                    /\ indexes[i] < Len(sort_schema)
            /\ Len(sort_schema) = Len(schema) + Cardinality(general)
            /\ sort.source.schema = sort_schema
            /\ gen.node = "SortKeysGen" <=> general # {}
            /\ gen.node = "SortKeysGen" =>
                    /\ Len(gen.gen_exprs) = Cardinality(general)
                    /\ \A i \in general :
                            gen.gen_exprs[GeneralBefore(order_by, i) + 1] = order_by[i]
                    /\ gen.source = p_scan
            /\ gen.node # "SortKeysGen" => gen = p_scan

\* ORDER BY id + 1, id, id + 1 over users: the keys are the columns 3, 0, 4.
C14_Witness ==
    /\ PlannedSelect /\ p_stmt.from = "users"
    /\ p_stmt.order_by = <<BinaryOperation(Identifier("id"), "Plus", One), Identifier("id"),
                           BinaryOperation(Identifier("id"), "Plus", One)>>
    /\ Projected(p_plan.plan).node = "Sort"
    /\ Projected(p_plan.plan).comparator.sort_keys_indexes = <<3, 0, 4>>
    /\ Projected(p_plan.plan).source.source.node = "SortKeysGen"

\* The column the claim gives an item of the projection list.
OutputColumn(schema, expr) ==
    IF expr.node = "Identifier" THEN schema[index_of(schema, expr.ident)]
    ELSE LET type == analyze_expression(schema, NoDataType, expr).type
         IN  Column(expression_to_string(expr),
                    CASE type = "Bool" -> DtBool
                      [] type = "Number" -> DtBigInt
                      [] type = "String" -> Varchar(65535),
                    <<>>)

\* C15: the plan of a SELECT has a Project at its root exactly when the
\* output schema differs from the table's schema, and is the scan or sort
\* plan itself otherwise; in the output schema an identifier is the table's
\* column, constraints included, and any other expression is a column named
\* by the expression's text, of type Bool, BigInt or Varchar(65535) as the
\* expression types as Bool, Number or String, without constraints.
C15_ProjectExactlyWhenSchemaDiffers ==
    PlannedSelect =>
        LET schema == a_tables[p_stmt.from].schema
            output == [i \in DOMAIN p_stmt.columns |->
                            OutputColumn(schema, p_stmt.columns[i])]
            root == p_plan.plan
        IN  /\ root.node = "Project" <=> output # schema
            /\ root.node = "Project" =>
                    /\ root.output_schema = output
                    /\ root.input_schema = schema
                    /\ root.projection = p_stmt.columns
                    /\ root.source.node # "Project"
            /\ root.node # "Project" => (root = p_scan \/ root.node = "Sort")

\* SELECT 'a', id FROM users: a Varchar(65535) column named "a" in quotes.
C15_Witness ==
    /\ PlannedSelect /\ p_stmt.from = "users"
    /\ p_stmt.columns = <<Value(String(<<97>>)), Identifier("id")>>
    /\ p_plan.plan.node = "Project"
    /\ p_plan.plan.output_schema
            = <<Column("\"a\"", Varchar(65535), <<>>), Column("id", DtInt, <<PrimaryKey>>)>>

\* C16: generate_plan, given an EXPLAIN of a statement it can plan, returns
\* no error but a plan around the plan of the inner statement.
C16_ExplainWrapsInnerPlan ==
    (p_plan # NotPlanned /\ p_stmt.kind = "Explain") =>
        /\ p_plan.ok
        /\ p_plan.plan.source = generate_plan(p_stmt.inner, p_scan, a_tables).plan

HasDistinctNames(schema) ==
    \A i \in DOMAIN schema : \A j \in DOMAIN schema :
        i # j => schema[i].name # schema[j].name

\* C29: in the plan of a SELECT the analyzer accepted, the schema of the
\* Collect under a Sort, the sort_schema of the Sort's comparator and the
\* output_schema of the Project each have pairwise distinct column names,
\* also when the projection or order_by repeats an identifier or expression.
C29_PlannedSchemasHaveDistinctNames ==
    PlannedSelect =>
        LET plan == p_plan.plan
            sorted == Projected(plan)
        IN  /\ plan.node = "Project" => HasDistinctNames(plan.output_schema)
            /\ sorted.node = "Sort" =>
                    /\ HasDistinctNames(sorted.source.schema)
                    /\ HasDistinctNames(sorted.comparator.sort_schema)

-----------------------------------------------------------------------------
(* The scans chosen for the predicates.                                    *)

\* A statement with a WHERE has been planned.
ScanPlanned ==
    /\ Planned /\ p_stmt.kind \in {"Select", "Delete", "Update"}
    /\ p_stmt.where # <<>>

ScannedSchema == a_tables[TargetOf(p_stmt)].schema

\* The conjuncts of a predicate, in the order they are written.
RECURSIVE Conjuncts(_)
Conjuncts(expr) ==
    IF expr.node = "BinaryOperation" /\ expr.operator = "And"
    THEN Conjuncts(expr.left) \o Conjuncts(expr.right)
    ELSE <<expr>>

\* The disjuncts of a predicate, in the order they are written.
RECURSIVE Disjuncts(_)
Disjuncts(expr) ==
    IF expr.node = "BinaryOperation" /\ expr.operator = "Or"
    THEN Disjuncts(expr.left) \o Disjuncts(expr.right)
    ELSE IF expr.node = "Nested" /\ expr.expr.node = "BinaryOperation"
            /\ expr.expr.operator = "Or"
    THEN Disjuncts(expr.expr)
    ELSE <<expr>>

RECURSIVE Conjunction(_)
Conjunction(exprs) ==
    IF Len(exprs) = 1 THEN exprs[1]
    ELSE And(Conjunction(SubSeq(exprs, 1, Len(exprs) - 1)), exprs[Len(exprs)])

\* The conjuncts that hold anything but comparisons of key columns with
\* literals: what the bounds and keys of index scans cannot absorb.
Unabsorbed(schema, expr) ==
    LET IsLeft(conjunct) == ~is_fully_indexable(schema, conjunct)
    IN  SelectSeq(Conjuncts(expr), IsLeft)

\* The sub-scans of a plan that unites several scans, or none.
SubScans(plan) ==
    LET scan == ScanBehindFilters(plan)
    IN  IF /\ scan.node = "KeyScan" /\ scan.source.node = "Sort"
           /\ scan.source.source.source.node = "LogicalOrScan"
        THEN scan.source.source.source.scans
        ELSE <<>>

\* C17 as stated: the scan plan has a Filter at its top exactly when a part
\* of the predicate is not absorbed by the index scans, the Filter holds
\* that part only, and a predicate absorbed as a whole, a disjunction of
\* sub-scans included, has no Filter.
C17_FilterIsResidualOnly ==
    ScanPlanned =>
        LET where == p_stmt.where[1]
            scan == ScanBehindFilters(p_scan)
            rest == IF scan.node = "SeqScan" THEN <<where>>
                    ELSE Unabsorbed(ScannedSchema, where)
        IN  /\ p_scan.node = "Filter" <=> rest # <<>>
            /\ p_scan.node = "Filter" => p_scan = Filter(Conjunction(rest), scan)

\* C17, amended: over a single index scan the Filter is there exactly when
\* a part of the predicate is not absorbed and holds that part only; over a
\* LogicalOrScan of several sub-scans, as over the sequential scan, the
\* Filter is always there and holds the whole predicate.
C17_FilterIsResidualOverOneScan ==
    ScanPlanned =>
        LET where == p_stmt.where[1]
            scan == ScanBehindFilters(p_scan)
            rest == IF scan.node = "SeqScan" \/ SubScans(p_scan) # <<>> THEN <<where>>
                    ELSE Unabsorbed(ScannedSchema, where)
        IN  /\ p_scan.node = "Filter" <=> rest # <<>>
            /\ p_scan.node = "Filter" => p_scan = Filter(Conjunction(rest), scan)

\* id = 3 OR id < 1: both disjuncts are sub-scans, and the Filter holds the
\* whole predicate.
C17_Witness ==
    /\ ScanPlanned /\ p_stmt.kind = "Select" /\ p_stmt.from = "users"
    /\ p_stmt.where = <<Or(BinaryOperation(Identifier("id"), "Eq", NumberOf(3)),
                           BinaryOperation(Identifier("id"), "Lt", NumberOf(1)))>>
    /\ Len(SubScans(p_scan)) = 2
    /\ p_scan.node = "Filter" /\ p_scan.filter = p_stmt.where[1]

\* The predicate has no comparison of a key column with a literal.
RECURSIVE HasNoIndexableAtom(_, _)
HasNoIndexableAtom(schema, expr) ==
    IF expr.node = "Nested" THEN HasNoIndexableAtom(schema, expr.expr)
    ELSE IF expr.node = "BinaryOperation" /\ expr.operator \in {"And", "Or"}
    THEN /\ HasNoIndexableAtom(schema, expr.left)
         /\ HasNoIndexableAtom(schema, expr.right)
    ELSE ~is_indexable_atom(schema, expr)

\* The predicate is made of comparisons of the table's key with numbers.
RECURSIVE IsOverKey(_, _)
IsOverKey(schema, expr) ==
    IF expr.node = "Nested" THEN IsOverKey(schema, expr.expr)
    ELSE IF expr.node = "BinaryOperation" /\ expr.operator \in {"And", "Or"}
    THEN IsOverKey(schema, expr.left) /\ IsOverKey(schema, expr.right)
    ELSE /\ is_indexable_atom(schema, expr)
         /\ expr.left.node = "Identifier" /\ expr.left.ident = schema[1].name
         /\ expr.right.value.tag = "Number"

\* Keys at twice their value, so that the odd points lie between the literals.
KeyPoints == 0..(2 * MaxKey + 2)

\* The predicate over the key, for a key at the point.
RECURSIVE HoldsAt(_, _)
HoldsAt(expr, point) ==
    IF expr.node = "Nested" THEN HoldsAt(expr.expr, point)
    ELSE IF expr.operator = "And"
    THEN HoldsAt(expr.left, point) /\ HoldsAt(expr.right, point)
    ELSE IF expr.operator = "Or"
    THEN HoldsAt(expr.left, point) \/ HoldsAt(expr.right, point)
    ELSE LET literal == 2 * expr.right.value.num[I128Bytes]
         IN  CASE expr.operator = "Eq" -> point = literal
               [] expr.operator = "Lt" -> point < literal
               [] expr.operator = "LtEq" -> point <= literal
               [] expr.operator = "Gt" -> point > literal
               [] expr.operator = "GtEq" -> point >= literal

\* C18: a scan that falls back to the sequential scan for a predicate is
\* Filter{the whole predicate} over SeqScan with the cursor at (root, 0);
\* and it falls back when the predicate has no indexable atom, when it is a
\* conjunction no key satisfies and when it is a disjunction every key
\* satisfies.
C18_FallBackKeepsWholePredicate ==
    ScanPlanned =>
        LET where == p_stmt.where[1]
            table == TargetOf(p_stmt)
            sequential == SeqScan(table, Cursor(a_tables[table].root, 0))
            over_key == IsOverKey(ScannedSchema, where)
            falls_back ==
                \/ HasNoIndexableAtom(ScannedSchema, where)
                \/ /\ over_key /\ where.node = "BinaryOperation" /\ where.operator = "And"
                   /\ \A point \in KeyPoints : ~HoldsAt(where, point)
                \/ /\ over_key /\ where.node = "BinaryOperation" /\ where.operator = "Or"
                   /\ \A point \in KeyPoints : HoldsAt(where, point)
        IN  /\ falls_back => ScanBehindFilters(p_scan).node = "SeqScan"
            /\ ScanBehindFilters(p_scan).node = "SeqScan" =>
                    p_scan = Filter(where, sequential)

\* (id > 1 OR id < 2) OR id > 3 covers every key: the sequential scan.
C18_Witness ==
    /\ ScanPlanned /\ p_stmt.kind = "Select" /\ p_stmt.from = "users"
    /\ p_stmt.where =
            <<Or(Nested(Or(BinaryOperation(Identifier("id"), "Gt", NumberOf(1)),
                           BinaryOperation(Identifier("id"), "Lt", NumberOf(2)))),
                 BinaryOperation(Identifier("id"), "Gt", NumberOf(3)))>>
    /\ p_scan = Filter(p_stmt.where[1], SeqScan("users", Cursor(1, 0)))

\* A conjunct of indexable atoms over one key column, bare or in parentheses.
IsIndexableConjunct(schema, expr) ==
    LET inner == IF expr.node = "Nested" THEN expr.expr ELSE expr
        atoms == Conjuncts(inner)
    IN  /\ \A i \in DOMAIN atoms :
                /\ is_indexable_atom(schema, atoms[i])
                /\ atoms[i].left.node = "Identifier"
                /\ atoms[i].left.ident = atoms[1].left.ident
        /\ find_index_paths(schema, inner).status = "indexed"

\* The key column of an indexable conjunct and its place in the schema.
ConjunctColumn(schema, expr) ==
    LET inner == IF expr.node = "Nested" THEN expr.expr ELSE expr
    IN  Conjuncts(inner)[1].left.ident

\* The range of keys of an indexable conjunct.
ConjunctRange(schema, expr) ==
    LET ranges == find_index_paths(schema, expr).ranges[ConjunctColumn(schema, expr)]
    IN  CHOOSE range \in ranges : TRUE

\* The key-only scan of an indexable conjunct.
ConjunctScan(table, schema, expr) ==
    range_scan_plan(table, schema, ConjunctColumn(schema, expr),
                    ConjunctRange(schema, expr), TRUE)

\* A disjunction of indexable conjuncts over key columns whose ranges of
\* keys lie apart: no two over one column overlap or touch.
SeparateConjuncts ==
    /\ ScanPlanned
    /\ LET disjuncts == Disjuncts(p_stmt.where[1])
           Col(d) == ConjunctColumn(ScannedSchema, disjuncts[d])
           Range(d) == ConjunctRange(ScannedSchema, disjuncts[d])
       IN  /\ Len(disjuncts) > 1
           /\ \A d \in DOMAIN disjuncts :
                    IsIndexableConjunct(ScannedSchema, disjuncts[d])
           /\ \A d, e \in DOMAIN disjuncts :
                    (d # e /\ Col(d) = Col(e)) => ~overlaps(Range(d), Range(e))

\* The scan plan is KeyScan over Sort over Collect over LogicalOrScan, behind
\* its Filter, with one sub-scan for each disjunct, each of which emits the
\* table key only.
UnitesDisjuncts ==
    LET scan == ScanBehindFilters(p_scan)
    IN  /\ scan.node = "KeyScan"
        /\ scan.source.node = "Sort"
        /\ scan.source.source.node = "Collect"
        /\ scan.source.source.source.node = "LogicalOrScan"
        /\ Len(scan.source.source.source.scans) = Len(Disjuncts(p_stmt.where[1]))
        /\ \A i \in DOMAIN scan.source.source.source.scans :
                scan.source.source.source.scans[i].emit_table_key_only

\* C19 as stated, for the disjuncts over one column: the plan of a
\* disjunction of indexable conjuncts is KeyScan over Sort over Collect over
\* LogicalOrScan, every sub-scan emits the table key only, and the sub-scans
\* of two disjuncts over the same column are queued in the order the
\* disjuncts are written in.
C19_SubScansInTextualOrder ==
    SeparateConjuncts =>
        LET disjuncts == Disjuncts(p_stmt.where[1])
            scans == SubScans(p_scan)
            schema == ScannedSchema
            Scan(d) == ConjunctScan(TargetOf(p_stmt), schema, disjuncts[d])
        IN  /\ UnitesDisjuncts
            /\ \A d, e \in DOMAIN disjuncts :
                    (d < e /\ ConjunctColumn(schema, disjuncts[d])
                                = ConjunctColumn(schema, disjuncts[e])) =>
                        \E i, j \in DOMAIN scans :
                            i < j /\ scans[i] = Scan(d) /\ scans[j] = Scan(e)

\* C19, amended: the plan of a disjunction of indexable conjuncts whose
\* ranges of keys on one column neither overlap nor touch is KeyScan over
\* Sort over Collect over LogicalOrScan, the LogicalOrScan has one sub-scan
\* for each disjunct, every sub-scan emits the table key only, and the
\* sub-scans over one column are queued in ascending order of their ranges
\* of keys, whatever the order the disjuncts are written in.
C19_SubScansInKeyOrder ==
    SeparateConjuncts =>
        LET disjuncts == Disjuncts(p_stmt.where[1])
            scans == SubScans(p_scan)
            schema == ScannedSchema
            Scan(d) == ConjunctScan(TargetOf(p_stmt), schema, disjuncts[d])
            Col(d) == ConjunctColumn(schema, disjuncts[d])
            Range(d) == ConjunctRange(schema, disjuncts[d])
        IN  /\ UnitesDisjuncts
            /\ \A d \in DOMAIN disjuncts : \E i \in DOMAIN scans : scans[i] = Scan(d)
            /\ \A i, j \in DOMAIN scans :
                    i < j => \E d, e \in DOMAIN disjuncts :
                                /\ scans[i] = Scan(d) /\ scans[j] = Scan(e)
                                /\ Col(d) = Col(e) =>
                                        start_lt(Range(d).start, Range(e).start)

\* (id > 2 AND id <= 3) OR id = 1 OR email < 'a' OR email > 'b' OR
\* email = 'ab', with the scans of id queued first: the scan of id = 1 comes
\* before that of the range of id, and that of email = 'ab' before that of
\* email > 'b'.
C19_Witness ==
    /\ SeparateConjuncts /\ p_stmt.kind = "Select" /\ p_stmt.from = "users"
    /\ Len(SubScans(p_scan)) = 5
    /\ SubScans(p_scan)[1].node = "ExactMatch"
    /\ SubScans(p_scan)[2].node = "RangeScan"
    /\ SubScans(p_scan)[4].node = "ExactMatch"
    /\ SubScans(p_scan)[4].relation = RelationIndex("users_email_uq_index")
    /\ SubScans(p_scan)[5].node = "RangeScan"

\* A conjunction of <, <=, > and >= between one key column and literals.
IsRangeConjunction(schema, expr) ==
    LET atoms == Conjuncts(expr)
    IN  \A i \in DOMAIN atoms :
            /\ is_indexable_atom(schema, atoms[i])
            /\ atoms[i].operator \in {"Lt", "LtEq", "Gt", "GtEq"}
            /\ atoms[i].left.node = "Identifier"
            /\ atoms[i].left.ident = atoms[1].left.ident

\* The tightest bound the comparisons with the strict and the inclusive
\* operator give on one side: of the largest literal if lower, of the
\* smallest if not; the strict comparison is the tighter on one literal.
TightestBound(atoms, strict, inclusive, lower) ==
    LET side == {i \in DOMAIN atoms : atoms[i].operator \in {strict, inclusive}}
        Tighter(a, b) == IF lower THEN value_lt(b, a) ELSE value_lt(a, b)
        tightest == CHOOSE i \in side :
                        \A j \in side : ~Tighter(atoms[j].right.value, atoms[i].right.value)
        value == atoms[tightest].right.value
    IN  IF side = {} THEN Unbounded
        ELSE IF \E i \in side : atoms[i].operator = strict /\ atoms[i].right.value = value
        THEN Excluded(value)
        ELSE Included(value)

\* The RangeScan of a plan with one scan: the plan itself over the table,
\* under KeyScan, Sort and Collect over an index.
RangeScanOf(plan) ==
    IF plan.node = "KeyScan" THEN plan.source.source.source ELSE plan

\* C20: for a conjunction of comparisons of one key column with literals
\* whose bounds do not cross, the scan is a RangeScan from the tightest
\* lower to the tightest upper bound, Excluded for < and >, Included for <=
\* and >=, Unbounded on a side without comparison, each bound holding the
\* literal serialized as a one-column tuple of the column's type.
C20_RangeBoundsAreTightest ==
    (ScanPlanned /\ IsRangeConjunction(ScannedSchema, p_stmt.where[1])) =>
        LET atoms == Conjuncts(p_stmt.where[1])
            column == ScannedSchema[index_of(ScannedSchema, atoms[1].left.ident)]
            start == TightestBound(atoms, "Gt", "GtEq", TRUE)
            end == TightestBound(atoms, "Lt", "LtEq", FALSE)
            Key(bound) ==
                IF bound = Unbounded THEN Unbounded
                ELSE [bound |-> bound.bound,
                      value |-> serialize(<<column>>, <<bound.value>>)]
        IN  ~is_empty_range(start, end) =>
                /\ RangeScanOf(p_scan).node = "RangeScan"
                /\ RangeScanOf(p_scan).range = <<Key(start), Key(end)>>

\* id > 1 AND id >= 2 over users: the range is (Included(2), Unbounded).
C20_Witness ==
    /\ ScanPlanned /\ p_stmt.from = "users"
    /\ p_stmt.where = <<And(BinaryOperation(Identifier("id"), "Gt", NumberOf(1)),
                            BinaryOperation(Identifier("id"), "GtEq", NumberOf(2)))>>
    /\ p_scan.node = "RangeScan"
    /\ p_scan.range = <<Included(<<0, 0, 0, 2>>), Unbounded>>

-----------------------------------------------------------------------------
(* The catalog: CREATE TABLE and CREATE INDEX statements are analyzed and, *)
(* when accepted, applied; the mkdb_meta table keeps the applied           *)
(* statements and the context's metadata is loaded from it.                *)

IndexMetadata(name, column, unique) ==
    [name |-> name, column |-> column, unique |-> unique]

\* The schema a table is stored with: row_id comes first when no column is
\* the primary key.
table_schema(columns) ==
    IF \E i \in DOMAIN columns : Contains(columns[i].constraints, PrimaryKey)
    THEN columns
    ELSE <<RowIdColumn>> \o columns

\* The indexes a table gets for its UNIQUE columns.
RECURSIVE unique_indexes(_, _, _)
unique_indexes(table, columns, i) ==
    IF i > Len(columns) THEN <<>>
    ELSE (IF Contains(columns[i].constraints, Unique)
          THEN <<IndexMetadata(index_name(table, columns[i].name),
                               columns[i].name, TRUE)>>
          ELSE <<>>) \o unique_indexes(table, columns, i + 1)

\* The indexes created on a table by the applied CREATE INDEX statements.
RECURSIVE created_indexes(_, _, _)
created_indexes(meta, table, i) ==
    IF i > Len(meta) THEN <<>>
    ELSE (IF meta[i].kind = "CreateIndex" /\ meta[i].table = table
          THEN <<IndexMetadata(meta[i].name, meta[i].column, meta[i].unique)>>
          ELSE <<>>) \o created_indexes(meta, table, i + 1)

\* The metadata of a table of mkdb_meta.
load_table_metadata(meta, table) ==
    LET row == CHOOSE i \in DOMAIN meta :
                    /\ meta[i].kind = "CreateTable" /\ meta[i].name = table
                    /\ \A j \in 1..(i - 1) :
                            ~(meta[j].kind = "CreateTable" /\ meta[j].name = table)
    IN  [indexes |-> unique_indexes(table, meta[row].columns, 1)
                        \o created_indexes(meta, table, 1)]
            @@ TableMetadata(table_schema(meta[row].columns))

\* The context over mkdb_meta.
load_catalog(meta) ==
    [table \in {meta[i].name : i \in {j \in DOMAIN meta : meta[j].kind = "CreateTable"}}
        |-> load_table_metadata(meta, table)]

\* Database::exec on an accepted CREATE statement.
exec_create(meta, statement) == Append(meta, statement)

MaxApplied == 4

CreateTableNames == {"users", "tasks"}

CreateColumns ==
    {Column("id", DtInt, <<PrimaryKey>>), Column("name", Varchar(2), <<PrimaryKey>>),
     Column("id", DtInt, <<>>), Column(ROW_ID_COL, DtUnsignedBigInt, <<>>)}

CreateColumnLists ==
    {<<c, d>> : c \in CreateColumns, d \in CreateColumns}
        \cup {<<Column("id", DtInt, <<PrimaryKey>>), Column("email", Varchar(2), <<Unique>>)>>}

CreateIndexNames == {"idx", "users_email_uq_index"}

CreateStatements ==
    {CreateTable(name, columns) : name \in CreateTableNames, columns \in CreateColumnLists}
        \cup {CreateIndex(name, table, "id", unique) :
                name \in CreateIndexNames, table \in CreateTableNames,
                unique \in BOOLEAN}

CatalogInit ==
    /\ a_meta = <<>>
    /\ a_tables = load_catalog(<<>>)
    /\ a_stmt = [kind |-> "None"] /\ a_result = Ok /\ a_pc = "ready"
    /\ t_schema = <<>> /\ t_tuple = <<>> /\ t_buf = <<>> /\ t_out = <<>>
    /\ t_size = 0 /\ t_pc = "idle"
    /\ page_size = 0 /\ block_size = 0 /\ io_vec = <<>> /\ io_pos = 0
    /\ io_last = <<>> /\ io_op = "idle" /\ io_page = 0 /\ io_buf = <<>> /\ io_ret = [ok |-> TRUE]
    /\ io_len = 0
    /\ p_stmt = [kind |-> "None"] /\ p_scan = [node |-> "None"]
    /\ p_plan = [node |-> "None"]
    /\ x_schema = <<>> /\ x_col = [kind |-> "None"] /\ x_expr = [node |-> "None"]
    /\ x_type = [ok |-> TRUE] /\ x_pc = "idle"
    /\ k_stream = <<>> /\ k_reached_eof = FALSE /\ k_items = <<>> /\ k_result = <<>>
    /\ build \in Builds

\* analyze(&statement, &mut ctx) on the next CREATE statement; the one before
\* it was applied or rejected.
AnalyzeCreate ==
    /\ a_pc = "ready" \/ (a_pc = "analyzed" /\ ~a_result.ok)
    /\ Len(a_meta) < MaxApplied
    /\ \E statement \in CreateStatements :
            /\ a_stmt' = statement
            /\ a_result' = analyze(statement, a_tables)
    /\ a_pc' = "analyzed"
    /\ UNCHANGED <<a_tables, a_meta>>
    /\ UNCHANGED <<tupleVars, ioVars, plannerVars, typingVars, tokenizerVars, build>>

\* The accepted statement is applied.
ExecCreate ==
    /\ a_pc = "analyzed" /\ a_result.ok
    /\ a_meta' = exec_create(a_meta, a_stmt)
    /\ a_tables' = load_catalog(exec_create(a_meta, a_stmt))
    /\ a_pc' = "ready"
    /\ UNCHANGED <<a_stmt, a_result>>
    /\ UNCHANGED <<tupleVars, ioVars, plannerVars, typingVars, tokenizerVars, build>>

CatalogNext == AnalyzeCreate \/ ExecCreate

SpecCatalog == CatalogInit /\ [][CatalogNext]_vars

\* The CREATE TABLE statements applied so far.
CreatedTables == {i \in DOMAIN a_meta : a_meta[i].kind = "CreateTable"}

NameTaken(name) == \E i \in CreatedTables : a_meta[i].name = name

RepeatedNames(columns) ==
    {columns[i].name : i \in {j \in DOMAIN columns :
                                \E k \in 1..(j - 1) : columns[k].name = columns[j].name}}

DeclaresRowId(columns) == \E i \in DOMAIN columns : columns[i].name = ROW_ID_COL

PrimaryKeysOf(columns) ==
    {i \in DOMAIN columns : Contains(columns[i].constraints, PrimaryKey)}

WellFormedColumns(columns) ==
    /\ RepeatedNames(columns) = {}
    /\ ~DeclaresRowId(columns)
    /\ Cardinality(PrimaryKeysOf(columns)) <= 1

AnalyzedCreateTable == a_pc = "analyzed" /\ a_stmt.kind = "CreateTable"

\* C21: the applied CREATE TABLE statements have pairwise distinct table
\* names, and each declares columns with pairwise distinct names, none of
\* them row_id, and at most one PRIMARY KEY; a CREATE TABLE that would break
\* this is rejected with AlreadyExists(Table(name)), DuplicatedColumn(name),
\* RowIdAssignment or MultiplePrimaryKeys, each only for a statement that has
\* that fault, and the catalog changes only by applying an accepted statement.
C21_CreatedTablesAreWellFormed ==
    /\ [](/\ \A i \in CreatedTables : \A j \in CreatedTables :
                i # j => a_meta[i].name # a_meta[j].name
          /\ \A i \in CreatedTables : WellFormedColumns(a_meta[i].columns)
          /\ AnalyzedCreateTable =>
                /\ a_result.ok <=> (/\ ~NameTaken(a_stmt.name)
                                    /\ WellFormedColumns(a_stmt.columns))
                /\ NameTaken(a_stmt.name) =>
                        a_result = AlreadyExists("Table", a_stmt.name)
                /\ ~a_result.ok =>
                    CASE a_result.error = "AlreadyExists" ->
                            /\ NameTaken(a_stmt.name)
                            /\ a_result.args = <<"Table", a_stmt.name>>
                      [] a_result.error = "DuplicatedColumn" ->
                            a_result.args[1] \in RepeatedNames(a_stmt.columns)
                      [] a_result.error = "RowIdAssignment" ->
                            DeclaresRowId(a_stmt.columns)
                      [] a_result.error = "MultiplePrimaryKeys" ->
                            Cardinality(PrimaryKeysOf(a_stmt.columns)) > 1
                      [] OTHER -> FALSE)
    /\ [][(a_meta' # a_meta \/ a_tables' # a_tables) =>
            /\ a_pc = "analyzed" /\ a_result.ok
            /\ a_meta' = Append(a_meta, a_stmt)]_vars

\* A table is in the catalog and a CREATE TABLE of another table with two
\* primary keys has been rejected.
C21_Witness ==
    /\ Cardinality(CreatedTables) = 1
    /\ AnalyzedCreateTable /\ ~NameTaken(a_stmt.name)
    /\ Cardinality(PrimaryKeysOf(a_stmt.columns)) > 1
    /\ a_result = MultiplePrimaryKeys

\* The indexes of the catalog, each with the table it is on.
CatalogIndexes ==
    {<<table, i>> : table \in DOMAIN a_tables, i \in 1..MaxApplied}
        \cap {<<table, i>> \in (DOMAIN a_tables) \X (1..MaxApplied) :
                    i \in DOMAIN a_tables[table].indexes}

IndexNameInUse(name) ==
    \E e \in CatalogIndexes : a_tables[e[1]].indexes[e[2]].name = name

AnalyzedCreateIndex ==
    a_pc = "analyzed" /\ a_stmt.kind = "CreateIndex"

\* C30: after any sequence of accepted and applied CREATE statements every
\* index of the catalog is UNIQUE and no two indexes share a name, on the
\* same table or on different tables; a non-unique CREATE INDEX is rejected,
\* and a UNIQUE one on an existing table whose name is already in use is
\* rejected with AlreadyExists(Index(name)).
C30_IndexNamesAreUniqueInCatalog ==
    /\ \A e \in CatalogIndexes : a_tables[e[1]].indexes[e[2]].unique
    /\ \A e \in CatalogIndexes : \A f \in CatalogIndexes :
            e # f => a_tables[e[1]].indexes[e[2]].name
                        # a_tables[f[1]].indexes[f[2]].name
    /\ (AnalyzedCreateIndex /\ ~a_stmt.unique) => ~a_result.ok
    /\ (/\ AnalyzedCreateIndex /\ a_stmt.unique
        /\ a_stmt.table \in DOMAIN a_tables
        /\ IndexNameInUse(a_stmt.name))
            => a_result = AlreadyExists("Index", a_stmt.name)

-----------------------------------------------------------------------------
(* sql/tokenizer.rs.  A char is a string of one character; the input and   *)
(* the text of a token are sequences of chars.                             *)

Location(line, col) == [line |-> line, col |-> col]

\* Stream::new
stream_new(input) == [input |-> input, pos |-> 0, location |-> Location(1, 1)]

\* Stream::next: the char consumed (none at the end) and the stream after.
stream_next(stream) ==
    IF stream.pos >= Len(stream.input) THEN [chr |-> <<>>, stream |-> stream]
    ELSE LET chr == stream.input[stream.pos + 1]
         IN  [chr |-> <<chr>>,
              stream |-> [stream EXCEPT
                            !.pos = @ + 1,
                            !.location = IF chr = "\n" THEN Location(@.line + 1, 1)
                                         ELSE Location(@.line, @.col + 1)]]

\* Stream::peek
stream_peek(stream) ==
    IF stream.pos >= Len(stream.input) THEN <<>> ELSE <<stream.input[stream.pos + 1]>>

\* Stream::peek_next
stream_peek_next(stream) ==
    LET after == stream_next(stream).stream
    IN  [chr |-> stream_peek(after), stream |-> after]

\* Stream::take_while(predicate).collect(), the predicate given as the set of
\* chars it holds of.
RECURSIVE take_while(_, _)
take_while(stream, accepted) ==
    LET peeked == stream_peek(stream)
    IN  IF peeked = <<>> \/ peeked[1] \notin accepted
        THEN [string |-> <<>>, stream |-> stream]
        ELSE LET rest == take_while(stream_next(stream).stream, accepted)
             IN  [string |-> <<peeked[1]>> \o rest.string, stream |-> rest.stream]

Digits == {"0", "1", "2", "3", "4", "5", "6", "7", "8", "9"}
Letters == {LowerCase[i] : i \in DOMAIN LowerCase} \cup {UpperCase[i] : i \in DOMAIN UpperCase}

\* The chars of the model's inputs.
Chars ==
    Letters \cup Digits
        \cup {" ", "\t", "\n", "\r", "<", ">", "*", "/", "+", "-", "=", "!", "(", ")",
              ",", ";", "\"", "'", "_", "#", "^"}

\* char::to_uppercase and str::to_uppercase, on ASCII
char_to_uppercase(chr) ==
    IF \E i \in DOMAIN LowerCase : LowerCase[i] = chr
    THEN UpperCase[CHOOSE i \in DOMAIN LowerCase : LowerCase[i] = chr]
    ELSE chr
to_uppercase(string) == [i \in DOMAIN string |-> char_to_uppercase(string[i])]

\* Token::is_part_of_ident_or_keyword
is_part_of_ident_or_keyword(chr) == chr \in Letters \cup Digits \cup {"_"}

\* token::Token
Token(name) == [token |-> name]
TokenOf(name, value) == [token |-> name, value |-> value]
Eof == Token("Eof")
Whitespace(kind) == TokenOf("Whitespace", kind)

\* token::Keyword, each by its text
Keywords ==
    {<<"S", "E", "L", "E", "C", "T">>,
     <<"C", "R", "E", "A", "T", "E">>,
     <<"U", "P", "D", "A", "T", "E">>,
     <<"D", "E", "L", "E", "T", "E">>,
     <<"I", "N", "S", "E", "R", "T">>,
     <<"V", "A", "L", "U", "E", "S">>,
     <<"I", "N", "T", "O">>,
     <<"S", "E", "T">>,
     <<"D", "R", "O", "P">>,
     <<"F", "R", "O", "M">>,
     <<"W", "H", "E", "R", "E">>,
     <<"A", "N", "D">>,
     <<"O", "R">>,
     <<"P", "R", "I", "M", "A", "R", "Y">>,
     <<"K", "E", "Y">>,
     <<"U", "N", "I", "Q", "U", "E">>,
     <<"T", "A", "B", "L", "E">>,
     <<"D", "A", "T", "A", "B", "A", "S", "E">>,
     <<"I", "N", "T">>,
     <<"B", "I", "G", "I", "N", "T">>,
     <<"U", "N", "S", "I", "G", "N", "E", "D">>,
     <<"V", "A", "R", "C", "H", "A", "R">>,
     <<"B", "O", "O", "L">>,
     <<"T", "R", "U", "E">>,
     <<"F", "A", "L", "S", "E">>,
     <<"O", "R", "D", "E", "R">>,
     <<"B", "Y">>,
     <<"I", "N", "D", "E", "X">>,
     <<"O", "N">>,
     <<"S", "T", "A", "R", "T">>,
     <<"T", "R", "A", "N", "S", "A", "C", "T", "I", "O", "N">>,
     <<"R", "O", "L", "L", "B", "A", "C", "K">>,
     <<"C", "O", "M", "M", "I", "T">>,
     <<"E", "X", "P", "L", "A", "I", "N">>}

\* tokenizer::ErrorKind
UnexpectedOrUnsupportedToken(chr) == [kind |-> "UnexpectedOrUnsupportedToken", chr |-> chr]
UnexpectedWhileParsingOperator(unexpected, operator) ==
    [kind |-> "UnexpectedWhileParsingOperator", unexpected |-> unexpected,
     operator |-> operator]
OperatorNotClosed(operator) == [kind |-> "OperatorNotClosed", operator |-> operator]
StringNotClosed == [kind |-> "StringNotClosed"]

\* The outcome of a step of the tokenizer: a TokenResult and the stream after.
TokenOk(token, stream) == [ok |-> TRUE, token |-> token, stream |-> stream]

\* Tokenizer::consume
consume(stream, token) == TokenOk(token, stream_next(stream).stream)

\* Tokenizer::error
error(stream, kind) ==
    [ok |-> FALSE,
     error |-> [kind |-> kind, location |-> stream.location, input |-> stream.input],
     stream |-> stream]

\* Stream::take_while(|chr| *chr != quote).collect()
RECURSIVE take_while_ne(_, _)
take_while_ne(stream, quote) ==
    LET peeked == stream_peek(stream)
    IN  IF peeked = <<>> \/ peeked[1] = quote
        THEN [string |-> <<>>, stream |-> stream]
        ELSE LET rest == take_while_ne(stream_next(stream).stream, quote)
             IN  [string |-> <<peeked[1]>> \o rest.string, stream |-> rest.stream]

\* Tokenizer::tokenize_string; at the end of the input there is no quote to
\* unwrap.
tokenize_string(stream) ==
    LET opened == stream_next(stream)
        quote == opened.chr[1]
        taken == take_while_ne(opened.stream, quote)
        closed == stream_next(taken.stream)
    IN  IF opened.chr = <<>> THEN UnwrapNone @@ [stream |-> stream]
        ELSE IF closed.chr # <<>> /\ closed.chr[1] = quote
        THEN TokenOk(TokenOf("String", taken.string), closed.stream)
        ELSE error(closed.stream, StringNotClosed)

\* Tokenizer::tokenize_number
tokenize_number(stream) ==
    LET taken == take_while(stream, Digits)
    IN  TokenOk(TokenOf("Number", taken.string), taken.stream)

\* Tokenizer::tokenize_keyword_or_identifier
tokenize_keyword_or_identifier(stream) ==
    LET taken == take_while(stream, {chr \in Chars : is_part_of_ident_or_keyword(chr)})
        keyword == to_uppercase(taken.string)
    IN  IF keyword \in Keywords
        THEN TokenOk(TokenOf("Keyword", keyword), taken.stream)
        ELSE TokenOk(TokenOf("Identifier", taken.string), taken.stream)

\* Tokenizer::next_token: the TokenResult, the stream after, and whether
\* reached_eof was set.
next_token(stream) ==
    LET peeked == stream_peek(stream)
        chr == peeked[1]
        next == stream_peek_next(stream)
    IN  IF peeked = <<>> THEN [reached_eof |-> TRUE] @@ TokenOk(Eof, stream)
        ELSE [reached_eof |-> FALSE] @@
             CASE chr = " " -> consume(stream, Whitespace("Space"))
               [] chr = "\t" -> consume(stream, Whitespace("Tab"))
               [] chr = "\n" -> consume(stream, Whitespace("Newline"))
               [] chr = "\r" ->
                    IF next.chr = <<"\n">> THEN consume(next.stream, Whitespace("Newline"))
                    ELSE TokenOk(Whitespace("Newline"), next.stream)
               [] chr = "<" ->
                    IF next.chr = <<"=">> THEN consume(next.stream, Token("LtEq"))
                    ELSE TokenOk(Token("Lt"), next.stream)
               [] chr = ">" ->
                    IF next.chr = <<"=">> THEN consume(next.stream, Token("GtEq"))
                    ELSE TokenOk(Token("Gt"), next.stream)
               [] chr = "*" -> consume(stream, Token("Mul"))
               [] chr = "/" -> consume(stream, Token("Div"))
               [] chr = "+" -> consume(stream, Token("Plus"))
               [] chr = "-" -> consume(stream, Token("Minus"))
               [] chr = "=" -> consume(stream, Token("Eq"))
               [] chr = "!" ->
                    IF next.chr = <<"=">> THEN consume(next.stream, Token("Neq"))
                    ELSE IF next.chr # <<>>
                    THEN error(next.stream,
                               UnexpectedWhileParsingOperator(next.chr[1], Token("Neq")))
                    ELSE error(next.stream, OperatorNotClosed(Token("Neq")))
               [] chr = "(" -> consume(stream, Token("LeftParen"))
               [] chr = ")" -> consume(stream, Token("RightParen"))
               [] chr = "," -> consume(stream, Token("Comma"))
               [] chr = ";" -> consume(stream, Token("SemiColon"))
               [] chr \in {"\"", "'"} -> tokenize_string(stream)
               [] chr \in Digits -> tokenize_number(stream)
               [] OTHER ->
                    IF is_part_of_ident_or_keyword(chr)
                    THEN tokenize_keyword_or_identifier(stream)
                    ELSE error(stream, UnexpectedOrUnsupportedToken(chr))

\* Tokenizer::new
tokenizer_new(input) == [stream |-> stream_new(input), reached_eof |-> FALSE]

\* Option<Result<TokenWithLocation, TokenizerError>>
None == [some |-> FALSE]
SomeOk(variant, location) ==
    [some |-> TRUE, ok |-> TRUE, variant |-> variant, location |-> location]
SomeErr(err) == [some |-> TRUE, ok |-> FALSE, error |-> err]

\* The iterator ending with None at the end of the input, Eof never yielded.
optional_next_token_with_location_without_eof(tokenizer) ==
    IF ~tokenizer.reached_eof /\ stream_peek(tokenizer.stream) # <<>>
    THEN LET location == tokenizer.stream.location
             result == next_token(tokenizer.stream)
         IN  [item |-> IF result.ok THEN SomeOk(result.token, location)
                       ELSE SomeErr(result.error),
              tokenizer |-> [stream |-> result.stream, reached_eof |-> FALSE]]
    ELSE [item |-> None, tokenizer |-> [tokenizer EXCEPT !.reached_eof = TRUE]]

\* Tokenizer::next_token_with_location and
\* Tokenizer::optional_next_token_with_location: the item the iterator yields
\* and the tokenizer after.
optional_next_token_with_location(tokenizer) ==
    IF ~tokenizer.reached_eof
    THEN LET location == tokenizer.stream.location
             result == next_token(tokenizer.stream)
         IN  [item |-> IF result.ok THEN SomeOk(result.token, location)
                       ELSE SomeErr(result.error),
              tokenizer |-> [stream |-> result.stream,
                             reached_eof |-> tokenizer.reached_eof \/ result.reached_eof]]
    ELSE [item |-> None, tokenizer |-> tokenizer]

\* Tokenizer::tokenize: collect() over the iterator stops at the first error
\* or at None.
RECURSIVE tokenize_collect(_, _)
tokenize_collect(tokenizer, tokens) ==
    LET pulled == optional_next_token_with_location(tokenizer)
    IN  IF ~pulled.item.some
        THEN [ok |-> TRUE, tokens |-> tokens, tokenizer |-> pulled.tokenizer]
        ELSE IF ~pulled.item.ok
        THEN [ok |-> FALSE, error |-> pulled.item.error, tokenizer |-> pulled.tokenizer]
        ELSE tokenize_collect(pulled.tokenizer, Append(tokens, pulled.item.variant))

tokenize(tokenizer) == tokenize_collect(tokenizer, <<>>)

-----------------------------------------------------------------------------
(* The tokenizer as a state machine: a Tokenizer over an input is run by   *)
(* tokenize() or pulled from through its iterator, and pulled from again   *)
(* after either.                                                           *)

MaxInput == 3
MaxPulls == 6

Alphabet == {" ", "\r", "\n", "<", "=", "!", "'", "\"", "1", "o", "N", "^"}

RECURSIVE Inputs(_)
Inputs(n) ==
    IF n = 0 THEN {<<>>}
    ELSE Inputs(n - 1) \cup {Append(input, chr) : input \in Inputs(n - 1), chr \in Alphabet}

TokenizerInit ==
    /\ \E input \in Inputs(MaxInput) : k_stream = stream_new(input)
    /\ k_reached_eof = FALSE
    /\ k_items = <<>>
    /\ k_result = <<>>
    /\ t_schema = <<>> /\ t_tuple = <<>> /\ t_buf = <<>> /\ t_out = <<>>
    /\ t_size = 0 /\ t_pc = "idle"
    /\ page_size = 0 /\ block_size = 0 /\ io_vec = <<>> /\ io_pos = 0
    /\ io_last = <<>> /\ io_op = "idle" /\ io_page = 0 /\ io_buf = <<>> /\ io_ret = [ok |-> TRUE]
    /\ io_len = 0
    /\ a_tables = <<>> /\ a_stmt = [kind |-> "None"] /\ a_result = [ok |-> TRUE]
    /\ a_pc = "idle" /\ a_meta = <<>>
    /\ p_stmt = [kind |-> "None"] /\ p_scan = [node |-> "None"]
    /\ p_plan = [node |-> "None"]
    /\ x_schema = <<>> /\ x_col = [kind |-> "None"] /\ x_expr = [node |-> "None"]
    /\ x_type = [ok |-> TRUE] /\ x_pc = "idle"
    /\ build \in Builds

\* Tokenizer::new(input).tokenize()
Tokenize ==
    /\ k_items = <<>> /\ k_result = <<>>
    /\ LET result == tokenize([stream |-> k_stream, reached_eof |-> k_reached_eof])
       IN  /\ k_result' = <<IF result.ok THEN [ok |-> TRUE, tokens |-> result.tokens]
                            ELSE [ok |-> FALSE, error |-> result.error]>>
           /\ k_stream' = result.tokenizer.stream
           /\ k_reached_eof' = result.tokenizer.reached_eof
    /\ UNCHANGED k_items
    /\ UNCHANGED <<tupleVars, ioVars, analyzerVars, plannerVars, typingVars, build>>

\* Iter::next
IterNext ==
    /\ Len(k_items) < MaxPulls
    /\ LET pulled == optional_next_token_with_location(
                        [stream |-> k_stream, reached_eof |-> k_reached_eof])
       IN  /\ k_items' = Append(k_items, pulled.item)
           /\ k_stream' = pulled.tokenizer.stream
           /\ k_reached_eof' = pulled.tokenizer.reached_eof
    /\ UNCHANGED k_result
    /\ UNCHANGED <<tupleVars, ioVars, analyzerVars, plannerVars, typingVars, build>>

TokenizerNext == Tokenize \/ IterNext

SpecTokenizer == TokenizerInit /\ [][TokenizerNext]_vars

IsEof(item) == item.some /\ item.ok /\ item.variant = Eof

\* C12: the tokens of a successful tokenize end with Eof and hold Eof exactly
\* once, and every item the iterator yields after Eof is None.
C12_EofLastAndOnce ==
    /\ (k_result # <<>> /\ k_result[1].ok) =>
            LET tokens == k_result[1].tokens
            IN  /\ tokens # <<>>
                /\ tokens[Len(tokens)] = Eof
                /\ Cardinality({i \in DOMAIN tokens : tokens[i] = Eof}) = 1
                /\ \A i \in DOMAIN k_items : k_items[i] = None
    /\ \A i, j \in DOMAIN k_items : (i < j /\ IsEof(k_items[i])) => k_items[j] = None

\* A successful tokenize of three tokens and Eof, pulled from twice after.
C12_Witness ==
    /\ k_result # <<>> /\ k_result[1].ok
    /\ Len(k_result[1].tokens) = 4
    /\ Len(k_items) = 2

\* C24: a pull from the iterator made while chars are left, whether it yields
\* a token or an error, consumes at least one char; so when only the iterator
\* is used, continuing past errors, Eof is among the first len(input) + 1
\* items.
C24_EveryPullConsumes ==
    /\ [][(k_items' # k_items /\ k_stream.pos < Len(k_stream.input)) =>
                k_stream'.pos > k_stream.pos]_vars
    /\ []((k_result = <<>> /\ Len(k_items) >= Len(k_stream.input) + 1) =>
                \E i \in 1..(Len(k_stream.input) + 1) : IsEof(k_items[i]))

-----------------------------------------------------------------------------
(* paging/io.rs: BlockIo over MemBuf, an io::Cursor<Vec<u8>>.              *)

\* Seek::seek(SeekFrom::Start(offset)) on the cursor.
CursorSeek(offset) == offset

\* Write::write on io::Cursor<Vec<u8>>: a write past the end first fills the
\* gap with zeros, then overwrites and extends; all of buf is written.
CursorWrite(vec, pos, buf) ==
    LET padded == IF pos > Len(vec) THEN vec \o Fill(pos - Len(vec), 0) ELSE vec
        end == pos + Len(buf)
    IN  [vec |-> SubSeq(padded, 1, pos) \o buf \o SubSeq(padded, end + 1, Len(padded)),
         pos |-> end,
         n |-> Len(buf)]

\* Read::read on the cursor: copies what is left of the vector, up to the
\* length of buf, into the front of buf.
CursorRead(vec, pos, buf) ==
    LET start == Min(pos, Len(vec))
        n == Min(Len(vec) - start, Len(buf))
    IN  [buf |-> [i \in 1..Len(buf) |-> IF i <= n THEN vec[start + i] ELSE buf[i]],
         pos |-> pos + n,
         n |-> n]

\* x & m in place of x & !m.
RECURSIVE AndNot_unnegated(_, _)
AndNot_unnegated(x, m) ==
    IF x = 0 THEN 0
    ELSE (x % 2) * (m % 2) + 2 * AndNot_unnegated(x \div 2, m \div 2)

\* x & !m on usize, bit by bit (the bits of !m above those of m are all 1).
RECURSIVE AndNot(_, _)
AndNot(x, m) ==
    IF x = 0 THEN 0
    ELSE (x % 2) * (1 - (m % 2)) + 2 * AndNot(x \div 2, m \div 2)

\* 100 << 20, the limit of debug_assert_args_are_correct
MaxFileSize == 104857600

\* Ok(n) of io::Result<usize>
OkUsize(n) == [ok |-> TRUE, value |-> n]

\* The two debug_assert! of BlockIo.  They are compiled with debug
\* assertions only: a release build checks nothing and goes on.
debug_assert_args_are_correct(page_number, buf) ==
    IF ~debug_assertions THEN Ok
    ELSE IF Len(buf) # page_size
    THEN Panic("buffer of incorrect length " \o usize_to_string(Len(buf))
                    \o " given for page size " \o usize_to_string(page_size))
    ELSE IF ~(page_size * page_number < MaxFileSize)
    THEN Panic("page number " \o usize_to_string(page_number)
                    \o " too high for page_size " \o usize_to_string(page_size)
                    \o ": limit is 100 MiB")
    ELSE Ok

read_offsets_unaligned(page_number) ==
    IF page_size >= block_size THEN <<page_size, page_size * page_number, 0>>
    ELSE LET offset == AndNot(page_number * page_size, block_size - 1)
         IN  <<block_size, offset, 0>>

\* (capacity, block_offset, inner_offset) of BlockIo::read
read_offsets(page_number) ==
    IF page_size >= block_size THEN <<page_size, page_size * page_number, 0>>
    ELSE LET offset == AndNot(page_number * page_size, block_size - 1)
         IN  <<block_size, offset, page_number * page_size - offset>>

\* &block[start..end] on a block of length len
SliceIndexPanic(end, len) ==
    Panic("range end index " \o usize_to_string(end)
            \o " out of range for slice of length " \o usize_to_string(len))

\* buf.copy_from_slice(src) with src.len() != buf.len()
CopyFromSlicePanic(src_len, dst_len) ==
    Panic("source slice length (" \o usize_to_string(src_len)
            \o ") does not match destination slice length ("
            \o usize_to_string(dst_len) \o ")")

\* BlockIo::read on a sink that holds vec with its cursor at position: the
\* buffer, the cursor position and what is returned.
\* With page_size >= block_size the cursor reads into buf itself, whatever
\* its length; with page_size < block_size a whole block is read, its count
\* is dropped and the page is copied out of the block into buf, which
\* panics unless buf holds page_size bytes.
read_sink(vec, position, page_number, buf) ==
    LET checked == debug_assert_args_are_correct(page_number, buf)
        capacity == read_offsets(page_number)[1]
        block_offset == read_offsets(page_number)[2]
        inner_offset == read_offsets(page_number)[3]
        pos == CursorSeek(block_offset)
    IN  IF ~checked.ok THEN [buf |-> buf, pos |-> position, ret |-> checked]
        ELSE IF page_size >= block_size
        THEN LET r == CursorRead(vec, pos, buf)
             IN  [buf |-> r.buf, pos |-> r.pos, ret |-> OkUsize(r.n)]
        ELSE LET r == CursorRead(vec, pos, Fill(capacity, 0))
                 end == inner_offset + page_size
             IN  IF end > capacity
                 THEN [buf |-> buf, pos |-> r.pos, ret |-> SliceIndexPanic(end, capacity)]
                 ELSE IF Len(buf) # page_size
                 THEN [buf |-> buf, pos |-> r.pos,
                       ret |-> CopyFromSlicePanic(page_size, Len(buf))]
                 ELSE [buf |-> Slice(r.buf, inner_offset, end),
                       pos |-> r.pos,
                       ret |-> OkUsize(page_size)]

\* BlockIo::read on the sink as it is.
read(page_number, buf) == read_sink(io_vec, io_pos, page_number, buf)

\* BlockIo::write that seeks to the start of the page's block, as read does.
write_at_block_offset(page_number, buf) ==
    LET checked == debug_assert_args_are_correct(page_number, buf)
        offset == read_offsets(page_number)[2]
        w == CursorWrite(io_vec, CursorSeek(offset), buf)
    IN  IF ~checked.ok THEN [vec |-> io_vec, pos |-> io_pos, ret |-> checked]
        ELSE [vec |-> w.vec, pos |-> w.pos, ret |-> OkUsize(w.n)]

\* BlockIo::write: all of buf is written at the offset of the page,
\* whatever its length.
write(page_number, buf) ==
    LET checked == debug_assert_args_are_correct(page_number, buf)
        offset == page_size * page_number
        w == CursorWrite(io_vec, CursorSeek(offset), buf)
    IN  IF ~checked.ok THEN [vec |-> io_vec, pos |-> io_pos, ret |-> checked]
        ELSE [vec |-> w.vec, pos |-> w.pos, ret |-> OkUsize(w.n)]

\* The lengths of the buffers handed to read and write: an entire page, half
\* a page, a page and a half.
BufferLengths == {page_size \div 2, page_size, page_size + page_size \div 2}

\* tests::block_io: the (page_size, block_size) pairs
Layouts == {<<4, 4>>, <<4, 16>>, <<16, 4>>}

MaxPage == 4

\* The last page written by a caller whose buffers do not hold a page.
MaxPartialPage == 1

\* The pages a caller writes: buffers longer than a page run over the
\* pages behind, so such a caller is followed over fewer pages.
WrittenPages == IF io_len = page_size THEN 0..MaxPage ELSE 0..MaxPartialPage

\* A page of bytes that differ from position to position and from seed to seed.
Pattern(n, seed) == [i \in 1..n |-> (seed * 64 + i) % 256]

WriteSeeds == {1, 2}

\* What the caller's buffer holds before a read.
ReadFills == {0, 170}

IoInit ==
    /\ \E layout \in Layouts : page_size = layout[1] /\ block_size = layout[2]
    /\ io_vec = <<>> /\ io_pos = 0
    /\ io_last = [p \in 0..MaxPage |-> <<>>]
    /\ io_op = "new" /\ io_page = 0 /\ io_buf = <<>> /\ io_ret = [ok |-> TRUE]
    /\ io_len \in BufferLengths
    /\ t_schema = <<>> /\ t_tuple = <<>> /\ t_buf = <<>> /\ t_out = <<>>
    /\ t_size = 0 /\ t_pc = "idle"
    /\ a_tables = <<>> /\ a_stmt = [kind |-> "None"] /\ a_result = [ok |-> TRUE]
    /\ a_pc = "idle" /\ a_meta = <<>>
    /\ p_stmt = [kind |-> "None"] /\ p_scan = [node |-> "None"]
    /\ p_plan = [node |-> "None"]
    /\ x_schema = <<>> /\ x_col = [kind |-> "None"] /\ x_expr = [node |-> "None"]
    /\ x_type = [ok |-> TRUE] /\ x_pc = "idle"
    /\ k_stream = <<>> /\ k_reached_eof = FALSE /\ k_items = <<>> /\ k_result = <<>>
    /\ build \in Builds

\* io.write(page_number, buf) by a caller whose buffers hold io_len bytes:
\* an entire page, half a page or a page and a half.  io_last remembers the
\* buffer last written to each page.
Write ==
    \E page_number \in WrittenPages, seed \in WriteSeeds :
        LET buf == Pattern(io_len, seed)
            w == write(page_number, buf)
        IN  /\ io_vec' = w.vec
            /\ io_pos' = w.pos
            /\ io_last' = IF w.ret.ok THEN [io_last EXCEPT ![page_number] = buf]
                          ELSE io_last
            /\ io_op' = "write" /\ io_page' = page_number
            /\ io_buf' = buf /\ io_ret' = w.ret
            /\ UNCHANGED <<page_size, block_size, io_len>>
            /\ UNCHANGED <<tupleVars, analyzerVars, plannerVars, typingVars, tokenizerVars, build>>

\* io.read(page_number, &mut buf)
Read ==
    \E page_number \in 0..MaxPage, fill \in ReadFills :
        LET buf == Fill(io_len, fill)
            r == read(page_number, buf)
        IN  /\ io_pos' = r.pos
            /\ io_op' = "read" /\ io_page' = page_number
            /\ io_buf' = r.buf /\ io_ret' = r.ret
            /\ UNCHANGED <<page_size, block_size, io_vec, io_last, io_len>>
            /\ UNCHANGED <<tupleVars, analyzerVars, plannerVars, typingVars, tokenizerVars, build>>

IoNext == Write \/ Read

SpecBlockIo == IoInit /\ [][IoNext]_vars

\* The caller's buffers hold an entire page.
EntirePages == io_len = page_size

\* A read of a written page has filled the buffer with the bytes last
\* written to the page and returned page_size.
ReadBack ==
    io_buf = io_last[io_page] /\ io_ret = OkUsize(page_size)

\* C3 as stated: for each layout in {(4,4),(4,16),(16,4)} and after any
\* sequence of writes, a read of a page that has been written fills the
\* buffer with the bytes most recently written to that page and returns
\* page_size.
C3_ReadReturnsLastWrite ==
    /\ <<page_size, block_size>> \in {<<4, 4>>, <<4, 16>>, <<16, 4>>}
    /\ (io_op = "read" /\ io_last[io_page] # <<>>) => ReadBack

\* C3, amended: for each layout in {(4,4),(4,16),(16,4)} and after any
\* sequence of writes that each passed a buffer of page_size bytes, a read
\* into a buffer of page_size bytes of a page that has been written fills
\* the buffer with the bytes most recently written to that page and returns
\* page_size, in a debug and in a release build.
C3_ReadReturnsLastEntireWrite ==
    /\ <<page_size, block_size>> \in {<<4, 4>>, <<4, 16>>, <<16, 4>>}
    /\ (/\ io_op = "read" /\ io_last[io_page] # <<>>
        /\ EntirePages) => ReadBack

\* A read, in the layout with several pages per block, of the first page
\* of the second block, written behind a hole in the first block.
C3_Witness ==
    /\ page_size < block_size /\ EntirePages
    /\ io_op = "read" /\ io_page = 4
    /\ io_buf = Pattern(page_size, 2) /\ io_ret = OkUsize(page_size)
    /\ io_last[3] = Pattern(page_size, 1)
    /\ io_last[2] = <<>> /\ io_last[0] # <<>>

\* A write leaves what a read gives of every other page written before.
OtherPagesKept ==
    \A q \in 0..MaxPage :
        (io_last[q] # <<>> /\ q # io_page') =>
            \A fill \in ReadFills :
                LET before == read_sink(io_vec, io_pos, q, Fill(page_size, fill))
                    after == read_sink(io_vec', io_pos', q, Fill(page_size, fill))
                IN  after.buf = before.buf /\ after.ret = before.ret

\* What a step may change of the sink: a write, the page_size bytes of its
\* page and what it appends; a read, nothing.
SinkFrame ==
    /\ (io_op' = "write") =>
            /\ Len(io_vec') >= Len(io_vec)
            /\ \A i \in 1..Len(io_vec) :
                    (i <= io_page' * page_size \/ i > (io_page' + 1) * page_size)
                        => (io_vec'[i] = io_vec[i])
    /\ (io_op' = "read") => (io_vec' = io_vec)
    /\ (io_op' = "write") => OtherPagesKept

\* C25 as stated: a write to page p changes no byte of the sink outside the
\* page_size bytes at p * page_size, so a read of any other page written
\* before returns after the write what it returned before, in both layouts;
\* a read changes no byte of the sink.
C25_WriteChangesOnlyItsPage ==
    [][SinkFrame]_vars

\* What a step may change of the sink: a write that returned, the bytes its
\* buffer covers from the offset of its page on, which lie inside the page
\* when the buffer is no longer than a page, and what it appends; a write
\* that panicked and a read, nothing.
BufferFrame ==
    /\ (io_op' = "write" /\ io_ret'.ok) =>
            /\ io_ret' = OkUsize(Len(io_buf'))
            /\ Len(io_vec') >= Len(io_vec)
            /\ \A i \in 1..Len(io_vec) :
                    (i <= io_page' * page_size \/ i > io_page' * page_size + Len(io_buf'))
                        => (io_vec'[i] = io_vec[i])
            /\ \A i \in 1..Len(io_buf') : io_vec'[io_page' * page_size + i] = io_buf'[i]
    /\ (io_op' = "write" /\ ~io_ret'.ok) =>
            /\ io_vec' = io_vec
            /\ build = "debug" /\ Len(io_buf') # page_size
    /\ (io_op' = "write" /\ Len(io_buf') # page_size /\ build = "debug") => ~io_ret'.ok
    /\ (io_op' = "read") => (io_vec' = io_vec)

\* C25, amended: a write to page p changes no byte of the sink outside the
\* bytes its buffer covers from p * page_size on: bytes of page p alone when
\* the buffer has no more than page_size bytes, and bytes of the pages
\* behind p when a release build is given a longer buffer (a debug build
\* panics before it writes a buffer of another length than page_size).  So
\* while every buffer has page_size bytes, a read of any other page written
\* before returns after the write what it returned before, the bytes last
\* written to that page, in both layouts.  A read changes no byte of the
\* sink.
C25_WriteChangesOnlyItsBuffer ==
    /\ [][BufferFrame]_vars
    /\ [](EntirePages =>
            \A q \in 0..MaxPage :
                io_last[q] # <<>> =>
                    \A fill \in ReadFills :
                        /\ read(q, Fill(page_size, fill)).buf = io_last[q]
                        /\ read(q, Fill(page_size, fill)).ret = OkUsize(page_size))

\* A write of an entire page, with several pages per block, to the last
\* page of the first block, between two written pages.
C25_Witness ==
    /\ page_size < block_size /\ EntirePages
    /\ io_op = "write" /\ io_page = 3 /\ io_buf = Pattern(page_size, 2)
    /\ io_ret = OkUsize(page_size)
    /\ io_last[2] = Pattern(page_size, 1) /\ io_last[4] = Pattern(page_size, 1)

\* C26: in both layouts a read returns page_size for a page that was written
\* in full, and for a page that lies entirely past the end of the sink it
\* returns 0 and leaves the buffer as it was.  The buffers of the read and
\* of every write hold page_size bytes.
C26_ReadReturnsSuppliedBytes ==
    (io_op = "read" /\ EntirePages) =>
        /\ io_last[io_page] # <<>> => io_ret = OkUsize(page_size)
        /\ io_page * page_size >= Len(io_vec) =>
                /\ io_ret = OkUsize(0)
                /\ \A fill \in ReadFills :
                        read(io_page, Fill(page_size, fill)).buf = Fill(page_size, fill)

-----------------------------------------------------------------------------
(* BlockIo::read over page and block sizes that are powers of two: the     *)
(* block offset and the offset of the page inside the block.               *)

\* Sizes are 2^0 .. 2^MaxShift.
MaxShift == 5

RECURSIVE PowerOfTwo(_)
PowerOfTwo(k) == IF k = 0 THEN 1 ELSE 2 * PowerOfTwo(k - 1)

Sizes == {PowerOfTwo(k) : k \in 0..MaxShift}

MaxPageNumber == 9

\* The first pages of the file, and the first pages at and past the 100 MiB
\* that debug_assert_args_are_correct allows.
PageNumbers ==
    (0..MaxPageNumber) \cup {MaxFileSize \div page_size + k : k \in 0..MaxPageNumber}

OffsetsInit ==
    /\ page_size \in Sizes /\ block_size \in Sizes
    /\ io_page \in PageNumbers
    /\ io_vec = <<>> /\ io_pos = 0
    /\ io_last = [p \in 0..MaxPage |-> <<>>]
    /\ io_op = "new" /\ io_buf = <<>> /\ io_ret = [ok |-> TRUE]
    /\ io_len \in BufferLengths
    /\ t_schema = <<>> /\ t_tuple = <<>> /\ t_buf = <<>> /\ t_out = <<>>
    /\ t_size = 0 /\ t_pc = "idle"
    /\ a_tables = <<>> /\ a_stmt = [kind |-> "None"] /\ a_result = [ok |-> TRUE]
    /\ a_pc = "idle" /\ a_meta = <<>>
    /\ p_stmt = [kind |-> "None"] /\ p_scan = [node |-> "None"]
    /\ p_plan = [node |-> "None"]
    /\ x_schema = <<>> /\ x_col = [kind |-> "None"] /\ x_expr = [node |-> "None"]
    /\ x_type = [ok |-> TRUE] /\ x_pc = "idle"
    /\ k_stream = <<>> /\ k_reached_eof = FALSE /\ k_items = <<>> /\ k_result = <<>>
    /\ build \in Builds

\* io.read(page_number, &mut buf) on the new BlockIo
ReadPage ==
    /\ io_op = "new"
    /\ LET buf == Fill(io_len, 0)
           r == read(io_page, buf)
       IN  /\ io_pos' = r.pos
           /\ io_op' = "read"
           /\ io_buf' = r.buf /\ io_ret' = r.ret
    /\ UNCHANGED <<page_size, block_size, io_vec, io_last, io_len, io_page>>
    /\ UNCHANGED <<tupleVars, analyzerVars, plannerVars, typingVars, tokenizerVars, build>>

OffsetsNext == ReadPage

SpecReadOffsets == OffsetsInit /\ [][OffsetsNext]_vars

\* C27: with page_size < block_size, both powers of two, and for every page
\* number, those a debug build refuses included, the block offset of a read
\* is the largest multiple of block_size that is not above
\* page_number * page_size, and inner_offset + page_size <= block_size: the
\* page lies inside the block that is read, the slice of the block never
\* goes out of bounds, and a read into a buffer of page_size bytes that a
\* build lets through returns page_size.
C27_PageLiesInsideItsBlock ==
    (io_op = "read" /\ page_size < block_size) =>
        LET capacity == read_offsets(io_page)[1]
            block_offset == read_offsets(io_page)[2]
            inner_offset == read_offsets(io_page)[3]
            refused == build = "debug" /\ io_page * page_size >= MaxFileSize
        IN  /\ block_offset % block_size = 0
            /\ block_offset <= io_page * page_size
            /\ io_page * page_size - block_offset < block_size
            /\ capacity = block_size
            /\ inner_offset = io_page * page_size - block_offset
            /\ inner_offset + page_size <= block_size
            /\ io_ret # SliceIndexPanic(inner_offset + page_size, capacity)
            /\ (Len(io_buf) = page_size /\ ~refused) =>
                    (io_ret = OkUsize(page_size) /\ io_pos = block_offset)

\* Page 6 past the 100 MiB of 4 bytes in blocks of 16, read by a release
\* build: the third page of its block.
C27_Witness ==
    /\ build = "release"
    /\ io_op = "read" /\ page_size = 4 /\ block_size = 16
    /\ io_page = MaxFileSize \div 4 + 6
    /\ read_offsets(io_page) = <<16, MaxFileSize + 16, 8>>
    /\ io_ret = OkUsize(4)

-----------------------------------------------------------------------------
\* The initial state of the components a specification leaves alone is written
\* out in its Init: BlockIo unset, no statement analyzed, no statement planned.
TupleInit ==
    /\ t_schema \in TupleSchemas
    /\ t_tuple \in TuplesOf(t_schema)
    /\ t_buf = <<>> /\ t_out = <<>> /\ t_size = 0
    /\ t_pc = "start"
    /\ page_size = 0 /\ block_size = 0 /\ io_vec = <<>> /\ io_pos = 0
    /\ io_last = <<>> /\ io_op = "idle" /\ io_page = 0 /\ io_buf = <<>> /\ io_ret = [ok |-> TRUE]
    /\ io_len = 0
    /\ a_tables = <<>> /\ a_stmt = [kind |-> "None"] /\ a_result = [ok |-> TRUE]
    /\ a_pc = "idle" /\ a_meta = <<>>
    /\ p_stmt = [kind |-> "None"] /\ p_scan = [node |-> "None"]
    /\ p_plan = [node |-> "None"]
    /\ x_schema = <<>> /\ x_col = [kind |-> "None"] /\ x_expr = [node |-> "None"]
    /\ x_type = [ok |-> TRUE] /\ x_pc = "idle"
    /\ k_stream = <<>> /\ k_reached_eof = FALSE /\ k_items = <<>> /\ k_result = <<>>
    /\ build \in Builds

Serialize ==
    /\ t_pc = "start"
    /\ t_buf' = serialize(t_schema, t_tuple)
    /\ t_pc' = "serialized"
    /\ UNCHANGED <<t_schema, t_tuple, t_out, t_size>>
    /\ UNCHANGED <<ioVars, analyzerVars, plannerVars, typingVars, tokenizerVars, build>>

Deserialize ==
    /\ t_pc = "serialized"
    /\ t_out' = deserialize(t_buf, t_schema)
    /\ t_pc' = "deserialized"
    /\ UNCHANGED <<t_schema, t_tuple, t_buf, t_size>>
    /\ UNCHANGED <<ioVars, analyzerVars, plannerVars, typingVars, tokenizerVars, build>>

SizeOf ==
    /\ t_pc = "deserialized"
    /\ t_size' = size_of(t_tuple, t_schema)
    /\ t_pc' = "done"
    /\ UNCHANGED <<t_schema, t_tuple, t_buf, t_out>>
    /\ UNCHANGED <<ioVars, analyzerVars, plannerVars, typingVars, tokenizerVars, build>>

TupleNext == Serialize \/ Deserialize \/ SizeOf

SpecTuple == TupleInit /\ [][TupleNext]_vars

\* C1: deserialize(serialize(schema, tuple), schema) returns the original tuple,
\* for every conforming tuple, negative Int and BigInt values included.
C1_RoundTrip == t_pc \in {"deserialized", "done"} => t_out = t_tuple

\* The size the claim gives for a column: 4, 8, 1, or 4 plus the UTF-8 length.
ClaimedSize(data_type, value) ==
    CASE data_type.kind \in {"Int", "UnsignedInt"} -> 4
      [] data_type.kind \in {"BigInt", "UnsignedBigInt"} -> 8
      [] data_type.kind = "Bool" -> 1
      [] data_type.kind = "Varchar" -> 4 + Len(as_bytes(value.string))

RECURSIVE ClaimedSizes(_, _, _)
ClaimedSizes(tuple, schema, i) ==
    IF i > Len(schema) THEN 0
    ELSE ClaimedSize(schema[i].data_type, tuple[i]) + ClaimedSizes(tuple, schema, i + 1)

\* C2: size_of(tuple, schema) is the byte length of serialize(schema, tuple),
\* which is 4 per Int/UnsignedInt, 8 per BigInt/UnsignedBigInt, 1 per Bool and
\* 4 plus the UTF-8 byte length per Varchar.
C2_SizeOfIsSerializedLength ==
    t_pc = "done" =>
        /\ t_size = Len(t_buf)
        /\ Len(t_buf) = ClaimedSizes(t_tuple, t_schema, 1)

\* A measured tuple with an integer and a string of multi-byte characters.
C2_Witness ==
    /\ t_pc = "done"
    /\ \E i \in 1..Len(t_schema) : t_schema[i].data_type.kind \in IntegerKinds
    /\ \E i \in 1..Len(t_schema) :
          /\ t_schema[i].data_type.kind = "Varchar"
          /\ Len(as_bytes(t_tuple[i].string)) > Len(t_tuple[i].string)

\* C28: for two values a < b of one integer type, serialized one after the
\* other, the key bytes of a come before the key bytes of b in bytewise
\* (memcmp) order.
C28_KeyOrderIsNumericOrder ==
    (/\ t_pc # "start" /\ Len(t_schema) = 2
     /\ t_schema[1].data_type = t_schema[2].data_type
     /\ t_schema[1].data_type.kind \in IntegerKinds
     /\ I128Lt(t_tuple[1].num, t_tuple[2].num)) =>
        LET byte_length == byte_length_of_integer_type(t_schema[1].data_type)
            key_a == Slice(t_buf, 0, byte_length)
            key_b == Slice(t_buf, byte_length, 2 * byte_length)
        IN  /\ Len(t_buf) = 2 * byte_length
            /\ BytesLt(key_a, key_b)

====
